---- MODULE Spec2Model ----
(***************************************************************************)
(* State-machine model of rovr, the RAII binding over the Oculus runtime.  *)
(*                                                                         *)
(* Spec        one thread using Context, HmdBuilder and Hmd (shim          *)
(*             Session), with every handler as one action and the native   *)
(*             calls it makes recorded in `last.calls` in program order.   *)
(* SpecRender  one thread using RenderContext and Frame on Hmds that Spec  *)
(*             has built, up to the end of the program.                    *)
(* SpecThreads several threads racing on Context::new / Drop for Context,  *)
(*             one action per step between two accesses of the            *)
(*             process-wide ACTIVE_CONTEXT flag or the native runtime.     *)
(* SpecMetadata one RenderContext answering its read-only methods while    *)
(*             the runtime's own answers change under it.                  *)
(* SpecSwap    one Session with the SwapTextureSet rings created for it    *)
(*             and the Frames computed for it from caller-given offsets.   *)
(* SpecLoad    UnsafeDynamicLibrary::open, FunctionTable::load and the     *)
(*             drop of the handle, with the platform's open, symbol and    *)
(*             close answers as inputs.                                    *)
(* SpecBuilder one HmdBuilder taking its option methods in any order, with *)
(*             any TrackingOptions value, up to build.                     *)
(* SpecPath    prepend_search_path and create_path on the process's        *)
(*             dynamic-library search path variable.                       *)
(* SpecMonitor the comparison of a display identifier with a monitor       *)
(*             identifier and find_glutin_monitor over enumerated monitors.*)
(* SpecLayout  the repr(C) layout of ffi::ovrGLTexture on 32-bit and       *)
(*             64-bit targets.                                             *)
(*                                                                         *)
(* Every specification but SpecLoad takes the platform's close of the      *)
(* runtime library to report no error; the panic of                        *)
(* Drop for UnsafeDynamicLibrary is an outcome of SpecLoad.                *)
(***************************************************************************)
EXTENDS Integers, Sequences, FiniteSets, TLC

(***************************************************************************)
(* Bounds of the model.                                                    *)
(***************************************************************************)
\* HmdBuilder values alive at one time.
MaxBuilders == 1
\* Native session handles (owned by an Hmd or not) in existence at one time.
MaxHmds == 2
\* RenderContext values alive at one time.
MaxRenderContexts == 2
\* Frame values alive at one time.
MaxFrames == 2
\* Threads calling Context::new.
NumThreads == 2
\* Symbols the loaded library may lack.
MaxMissing == 2
\* Methods called on one TrackingOptions value.
MaxOptionCalls == 3
\* Characters of one path given to prepend_search_path or found in the
\* search path variable at the start.
MaxPathLen == 2
\* Characters of the search path variable.
MaxVarLen == 5
\* SwapTextureSet values alive at one time.
\* monitors the windowing toolkit enumerates, at most
MaxMonitors == 2
\* numeric display identifiers are 1..MaxDisplayNumber
MaxDisplayNumber == 2
\* a texture is 1..MaxTextureSide pixels wide and high
MaxTextureSide == 3
\* OpenGL texture names are 1..MaxTexId
MaxTexId == 6
MaxSwapSets == 2
\* Textures the runtime puts in one swap texture set.
MaxTextures == 2
\* Platform opens that return a handle.
MaxOpens == 2

(***************************************************************************)
(* ffi/mod.rs: result codes and their classification.                      *)
(***************************************************************************)
ovrFalse == 0
ovrTrue == 1
ovrSuccess == 0
ovrSuccess_NotVisible == 1000

\* What the native runtime can answer to a call with an ovrResult: an error
\* (negative), plain success, or a qualified (positive) success.
NativeResults == {-1, ovrSuccess, ovrSuccess_NotVisible}

\* The codes the runtime's header declares as success codes.
SuccessCodes == {ovrSuccess, ovrSuccess_NotVisible}

\* fn ovrSuccess(r): "return r > 0".
ovrSuccessFn(r) == r > 0

ovrFailure_AlwaysFalse(r) == FALSE

\* fn ovrFailure(r): "return !ovrSuccess(r)".
ovrFailure(r) == ~ovrSuccessFn(r)

(***************************************************************************)
(* A native call as recorded in the order the handler makes it.            *)
(***************************************************************************)
Call(f, r) == [fn |-> f, ret |-> r]

CallNames(calls) == {calls[i].fn : i \in DOMAIN calls}

CountCalls(calls, f) == Cardinality({i \in DOMAIN calls : calls[i].fn = f})

\* f occurs in calls, g occurs in calls, and every f is before every g.
Precedes(calls, f, g) ==
    /\ f \in CallNames(calls)
    /\ g \in CallNames(calls)
    /\ \A i, j \in DOMAIN calls : (calls[i].fn = f /\ calls[j].fn = g) => i < j

(***************************************************************************)
(* std::sync::atomic::AtomicBool                                           *)
(***************************************************************************)
compare_and_swap_NoStore(cur, old, new) == cur

compare_and_swap_ClearOnMismatch(cur, old, new) == IF cur = old THEN new ELSE old

\* The value stored by compare_and_swap(old, new); it returns cur.
compare_and_swap(cur, old, new) == IF cur = old THEN new ELSE cur

(***************************************************************************)
(* std::rc::Rc<shim::Context>: the strong count.                           *)
(***************************************************************************)
Rc_clone_NoCount(n) == n

Rc_clone(n) == n + 1

Rc_drop(n) == n - 1

VARIABLES
    ACTIVE_CONTEXT,   \* the process-wide static AtomicBool
    libsOpen,         \* library handles opened and not yet closed
    initsSinceShutdown, \* ovr_Initialize invocations since the last ovr_Shutdown
    nativeSessions,   \* native session handles created and not destroyed
    \* ---- Spec ----
    mode,             \* "running" | "unwinding" | "aborted" | "exited"
    context,          \* the public Context value: "none" | "alive" | "dropped"
    strong,           \* strong count of the Rc<shim::Context>; 0: no shim Context
    builders,         \* HmdBuilder values
    hmds,             \* Hmd values (each wraps one shim Session)
    rcs,              \* RenderContext values
    frames,           \* Frame values
    last,             \* the last operation, its inputs, result and native calls
    \* ---- SpecThreads ----
    pc,               \* per thread: position in Context::new / Drop for Context
    ret,              \* per thread: result of its last Context::new
    holds,            \* per thread: it owns a shim Context value
    shutdowns,        \* per thread: ovr_Shutdown calls made for the Context it holds
    \* ---- SpecLoad ----
    lib,              \* the UnsafeDynamicLibrary value: "none" | "wrapper" | "table"
    opens,            \* platform opens that returned a handle
    closeCalls,       \* platform close calls made
    \* ---- SpecPath ----
    envvar,           \* the process's dynamic-library search path variable
    \* ---- the native runtime ----
    runtime,          \* what the runtime answers now about the device's eyes
    nativeFrames,     \* ovrHmd_BeginFrame calls not yet matched by an ovrHmd_EndFrame
    \* ---- SpecSwap ----
    swaps,            \* SwapTextureSet values
    nativeSwapSets    \* native swap texture sets created and not destroyed

shared == <<ACTIVE_CONTEXT, libsOpen, initsSinceShutdown, nativeSessions>>
seqVars == <<mode, context, strong, builders, hmds, rcs, frames, last>>
thrVars == <<pc, ret, holds, shutdowns>>
loadVars == <<lib, opens, closeCalls, envvar>>
swapVars == <<swaps, nativeSwapSets>>
vars == <<shared, seqVars, thrVars, loadVars, swapVars, runtime, nativeFrames>>

Threads == 1..NumThreads
BuilderIds == 1..MaxBuilders
HmdIds == 1..MaxHmds
RcIds == 1..MaxRenderContexts
FrameIds == 1..MaxFrames
SwapIds == 1..MaxSwapSets

(***************************************************************************)
(* lib.rs Eye and the eye indices of the native arrays ([T; 2], indexed     *)
(* from 0).                                                                *)
(***************************************************************************)
Eyes == {"Left", "Right"}

EyeIndices == {0, 1}

\* ffi ovrFovPort, ovrSizei, ovrVector3f (tangents and lengths as integers).
ovrFovPort(u, d, l, r) == [UpTan |-> u, DownTan |-> d, LeftTan |-> l, RightTan |-> r]

ovrSizei(w, h) == [w |-> w, h |-> h]

ovrVector3f(x, y, z) == [x |-> x, y |-> y, z |-> z]

\* ffi ovrQuatf and ovrPosef.
ovrQuatf(x, y, z, w) == [x |-> x, y |-> y, z |-> z, w |-> w]

ovrPosef(orientation, position) == [Orientation |-> orientation, Position |-> position]

(***************************************************************************)
(* What the native runtime answers about the two eyes of the device: the   *)
(* field of view it grants (ovrEyeRenderDesc.Fov), the offset of the eye    *)
(* (ovrEyeRenderDesc.HmdToEyeViewOffset) and the texture size it suggests   *)
(* (ovrHmd_GetFovTextureSize), each by eye index, and the pose of the head *)
(* it tracks now.                                                          *)
(***************************************************************************)
NativeEyes(fov0, fov1, size0, size1, offset0, offset1, head) ==
    [Fov |-> [i \in EyeIndices |-> IF i = 0 THEN fov0 ELSE fov1],
     TextureSize |-> [i \in EyeIndices |-> IF i = 0 THEN size0 ELSE size1],
     HmdToEyeViewOffset |-> [i \in EyeIndices |-> IF i = 0 THEN offset0 ELSE offset1],
     HeadPose |-> head]

\* A device with different eyes, the same device with the eyes exchanged, and
\* a device whose two eyes are alike; the head is somewhere else in each.
Runtimes ==
    {NativeEyes(ovrFovPort(13, 13, 12, 10), ovrFovPort(13, 13, 10, 12),
                ovrSizei(1182, 1461), ovrSizei(1180, 1464),
                ovrVector3f(-32, 0, 0), ovrVector3f(32, 0, 0),
                ovrPosef(ovrQuatf(0, 0, 0, 1), ovrVector3f(0, 1700, 0))),
     NativeEyes(ovrFovPort(13, 13, 10, 12), ovrFovPort(13, 13, 12, 10),
                ovrSizei(1180, 1464), ovrSizei(1182, 1461),
                ovrVector3f(32, 0, 0), ovrVector3f(-32, 0, 0),
                ovrPosef(ovrQuatf(0, 7, 0, 7), ovrVector3f(100, 1650, -50))),
     NativeEyes(ovrFovPort(11, 11, 11, 11), ovrFovPort(11, 11, 11, 11),
                ovrSizei(1024, 1024), ovrSizei(1024, 1024),
                ovrVector3f(-30, 0, 0), ovrVector3f(30, 0, 0),
                ovrPosef(ovrQuatf(3, 0, 4, 5), ovrVector3f(-200, 1200, 300)))}

DefaultRuntime ==
    NativeEyes(ovrFovPort(13, 13, 12, 10), ovrFovPort(13, 13, 10, 12),
               ovrSizei(1182, 1461), ovrSizei(1180, 1464),
               ovrVector3f(-32, 0, 0), ovrVector3f(32, 0, 0),
               ovrPosef(ovrQuatf(0, 0, 0, 1), ovrVector3f(0, 1700, 0)))

\* The native eye-pose query (ovrHmd_GetEyePoses): the pose of each eye for
\* the head as tracked now and the eye offsets the caller passes.
ovrHmd_GetEyePoses(native, hmdToEyeViewOffset) ==
    [i \in EyeIndices |->
        ovrPosef(native.HeadPose.Orientation,
                 ovrVector3f(native.HeadPose.Position.x + hmdToEyeViewOffset[i].x,
                             native.HeadPose.Position.y + hmdToEyeViewOffset[i].y,
                             native.HeadPose.Position.z + hmdToEyeViewOffset[i].z))]

\* shim.rs Session::new, the eye offsets it derives after ovr_Create: the
\* HmdToEyeViewOffset of ovr_GetRenderDesc for eye 0 and for eye 1, asked with
\* the DefaultEyeFov of ovr_GetHmdDesc.
Session_new_eye_offsets(native) == [eye \in EyeIndices |-> native.HmdToEyeViewOffset[eye]]

\* shim.rs Session::new, the value it returns: Session{ session, context }.
\* The offsets derived just before are a local that the value is not built
\* from, so the set of offsets a Session holds is empty.
Session_value(eye_offsets) == [state |-> "alive", eye_offsets |-> {}]

NoSession == [state |-> "none", eye_offsets |-> {}]

\* The native ovr_CalcEyePoses: the pose of each eye for a head pose and the
\* eye offsets the caller passes.
ovr_CalcEyePoses(headPose, hmdToEyeViewOffset) ==
    [i \in EyeIndices |->
        ovrPosef(headPose.Orientation,
                 ovrVector3f(headPose.Position.x + hmdToEyeViewOffset[i].x,
                             headPose.Position.y + hmdToEyeViewOffset[i].y,
                             headPose.Position.z + hmdToEyeViewOffset[i].z))]

\* `[Default::default(); 2]` of ovrPosef.
DefaultPoses == [i \in EyeIndices |-> ovrPosef(ovrQuatf(0, 0, 0, 0), ovrVector3f(0, 0, 0))]

\* A TextureBinding of two zeroed ovrGLTexture (its Default).
ZeroedTextureBinding ==
    [textures |-> [i \in EyeIndices |->
                      [API |-> 0, TextureSize |-> ovrSizei(0, 0),
                       RenderViewport |-> [Pos |-> [x |-> 0, y |-> 0], Size |-> ovrSizei(0, 0)],
                       TexId |-> 0]]]

\* ffi ovrSwapTextureSet: the textures (indexed from 0, by their TexId), how
\* many they are and the index of the current one.
ovrSwapTextureSet(textures, count, index) ==
    [Textures |-> textures, TextureCount |-> count, CurrentIndex |-> index]

\* lib.rs HmdBuilder::new.  `called` records the option methods called on
\* the builder since.
HmdBuilder_new ==
    [state |-> "alive", caps |-> {"LowPersistence", "DynamicPrediction"},
     track_caps |-> {}, allow_debug |-> FALSE, called |-> {}]

\* An HmdBuilder that does not exist.
NoHmdBuilder ==
    [state |-> "none", caps |-> {}, track_caps |-> {}, allow_debug |-> FALSE, called |-> {}]

\* A SwapTextureSet that does not exist.  `trail` records, for one that
\* exists, the CurrentIndex it was created with and the CurrentIndex after
\* each advance since, the last TextureCount + 1 of them; `session` is the
\* Session it borrows and `layer` the Layer that owns it (0: its creator).
NoSwapTextureSet ==
    [state |-> "none", texture_set |-> ovrSwapTextureSet(<<>>, 0, 0), trail |-> <<>>,
     session |-> 0, layer |-> 0]

\* A Frame that does not exist.  `begun` records, for a Frame that exists,
\* what the eye-pose query answered in its Frame::new and the binding that
\* call was given.
NoFrame ==
    [state |-> "none", rc |-> 0, poses |-> DefaultPoses, textures |-> ZeroedTextureBinding,
     begun |-> [poses |-> DefaultPoses, texture_binding |-> ZeroedTextureBinding]]

\* A RenderContext that does not exist.
NoRenderContext ==
    [state |-> "none", hmd |-> 0,
     eye_texture_sizes |-> [i \in EyeIndices |-> ovrSizei(0, 0)],
     fovs |-> [i \in EyeIndices |-> ovrFovPort(0, 0, 0, 0)],
     offsets |-> [i \in EyeIndices |-> ovrVector3f(0, 0, 0)]]

(***************************************************************************)
(* shim.rs, Drop for Context: the statements of the destructor body in     *)
(* program order.  When the body has run the fields are dropped, which     *)
(* drops the FunctionTable and with it the library handle.                 *)
(***************************************************************************)
ContextDropSteps_SwapFirst == <<"ACTIVE_CONTEXT.swap", "ovr_Shutdown">>

ContextDropSteps == <<"ovr_Shutdown", "ACTIVE_CONTEXT.swap">>

(***************************************************************************)
(* SpecThreads: threads racing on Context::new and Drop for Context.       *)
(***************************************************************************)
seqInit ==
    /\ mode = "running"
    /\ context = "none"
    /\ strong = 0
    /\ builders = [b \in BuilderIds |-> NoHmdBuilder]
    /\ hmds = [h \in HmdIds |-> NoSession]
    /\ rcs = [r \in RcIds |-> NoRenderContext]
    /\ frames = [f \in FrameIds |-> NoFrame]
    /\ last = [op |-> "none", result |-> "none", calls |-> <<>>, args |-> [none |-> TRUE]]

thrInit ==
    /\ pc = [t \in Threads |-> "idle"]
    /\ ret = [t \in Threads |-> "none"]
    /\ holds = [t \in Threads |-> FALSE]
    /\ shutdowns = [t \in Threads |-> 0]

sharedInit ==
    /\ ACTIVE_CONTEXT = FALSE
    /\ libsOpen = 0
    /\ initsSinceShutdown = 0
    /\ nativeSessions = 0

\* The search path variable when the process has none.
NoVar == [set |-> FALSE, value |-> <<>>]

loadInit ==
    /\ lib = "none"
    /\ opens = 0
    /\ closeCalls = 0
    /\ envvar = NoVar

swapInit ==
    /\ swaps = [s \in SwapIds |-> NoSwapTextureSet]
    /\ nativeSwapSets = 0

Init ==
    /\ sharedInit /\ seqInit /\ thrInit /\ loadInit /\ swapInit
    /\ runtime = DefaultRuntime
    /\ nativeFrames = 0

\* Context::new, line 109-112: the compare-and-swap and the early return.
T_CompareAndSwap(t) ==
    /\ pc[t] = "idle"
    /\ LET was_active == ACTIVE_CONTEXT IN
       /\ ACTIVE_CONTEXT' = compare_and_swap(ACTIVE_CONTEXT, FALSE, TRUE)
       /\ IF was_active
          THEN /\ ret' = [ret EXCEPT ![t] = "DuplicateContext"]
               /\ pc' = pc
          ELSE /\ ret' = [ret EXCEPT ![t] = "pending"]
               /\ pc' = [pc EXCEPT ![t] = "load"]
    /\ UNCHANGED <<libsOpen, initsSinceShutdown, nativeSessions, holds, shutdowns, seqVars, swapVars, loadVars, runtime, nativeFrames>>

\* Context::new, line 114: load_ovr().
T_LoadOvr(t) ==
    /\ pc[t] = "load"
    /\ \E opened \in BOOLEAN :
         IF opened
         THEN /\ libsOpen' = libsOpen + 1
              /\ pc' = [pc EXCEPT ![t] = "symbols"]
              /\ ret' = ret
         ELSE /\ libsOpen' = libsOpen
              /\ pc' = [pc EXCEPT ![t] = "idle"]
              /\ ret' = [ret EXCEPT ![t] = "OculusRuntimeError"]
    /\ UNCHANGED <<ACTIVE_CONTEXT, initsSinceShutdown, nativeSessions, holds, shutdowns, seqVars, swapVars, loadVars, runtime, nativeFrames>>

\* Context::new, line 116: FunctionTable::load(lib); on a missing symbol the
\* library value is dropped (closed) and the error returned.
T_LoadTable(t) ==
    /\ pc[t] = "symbols"
    /\ \E resolved \in BOOLEAN :
         IF resolved
         THEN /\ libsOpen' = libsOpen
              /\ pc' = [pc EXCEPT ![t] = "init"]
              /\ ret' = ret
         ELSE /\ libsOpen' = libsOpen - 1
              /\ pc' = [pc EXCEPT ![t] = "idle"]
              /\ ret' = [ret EXCEPT ![t] = "OculusRuntimeError"]
    /\ UNCHANGED <<ACTIVE_CONTEXT, initsSinceShutdown, nativeSessions, holds, shutdowns, seqVars, swapVars, loadVars, runtime, nativeFrames>>

\* Context::new, line 117-123: ovr_Initialize under ovr_invoke!, then the
\* Context value is built.
T_Initialize(t) ==
    /\ pc[t] = "init"
    /\ \E r \in NativeResults :
         /\ initsSinceShutdown' = initsSinceShutdown + 1
         /\ IF ovrFailure(r)
            THEN /\ libsOpen' = libsOpen - 1
                 /\ pc' = [pc EXCEPT ![t] = "idle"]
                 /\ ret' = [ret EXCEPT ![t] = "SdkError"]
                 /\ UNCHANGED <<holds, shutdowns>>
            ELSE /\ libsOpen' = libsOpen
                 /\ pc' = [pc EXCEPT ![t] = "live"]
                 /\ ret' = [ret EXCEPT ![t] = "Ok"]
                 /\ holds' = [holds EXCEPT ![t] = TRUE]
                 /\ shutdowns' = [shutdowns EXCEPT ![t] = 0]
    /\ UNCHANGED <<ACTIVE_CONTEXT, nativeSessions, seqVars, swapVars, loadVars, runtime, nativeFrames>>

\* One statement of the destructor body, as thread t executes it.
T_DropStatement(t, stmt, next) ==
    IF stmt = "ovr_Shutdown"
    THEN /\ initsSinceShutdown' = 0
         /\ shutdowns' = [shutdowns EXCEPT ![t] = @ + 1]
         /\ pc' = [pc EXCEPT ![t] = next]
         /\ UNCHANGED ACTIVE_CONTEXT
    ELSE LET was_active == ACTIVE_CONTEXT IN
         /\ ACTIVE_CONTEXT' = FALSE
         /\ pc' = [pc EXCEPT ![t] = IF was_active THEN next ELSE "panicked"]
         /\ UNCHANGED <<initsSinceShutdown, shutdowns>>

\* Drop for Context, first statement of the body.
T_DropFirst(t) ==
    /\ pc[t] = "live"
    /\ T_DropStatement(t, ContextDropSteps[1], "drop2")
    /\ UNCHANGED <<libsOpen, nativeSessions, ret, holds, seqVars, swapVars, loadVars, runtime, nativeFrames>>

\* Drop for Context, second statement of the body; then the fields are
\* dropped (also when the assert unwinds), which closes the library.
T_DropSecond(t) ==
    /\ pc[t] = "drop2"
    /\ T_DropStatement(t, ContextDropSteps[2], "idle")
    /\ libsOpen' = libsOpen - 1
    /\ holds' = [holds EXCEPT ![t] = FALSE]
    /\ UNCHANGED <<nativeSessions, ret, seqVars, swapVars, loadVars, runtime, nativeFrames>>

NextThreads ==
    \E t \in Threads :
        \/ T_CompareAndSwap(t)
        \/ T_LoadOvr(t)
        \/ T_LoadTable(t)
        \/ T_Initialize(t)
        \/ T_DropFirst(t)
        \/ T_DropSecond(t)

SpecThreads == Init /\ [][NextThreads]_vars

(***************************************************************************)
(* Spec: one thread using the API.  The operators compute what a handler   *)
(* does from its inputs; the actions apply them to the state.              *)
(***************************************************************************)

\* shim.rs ovr_invoke!: the message of the error it returns for the call
\* expression x.  The macro writes the string literal "$x failed", and a
\* macro parameter inside a string literal is not substituted.
ovr_invoke(x) == "$x failed"

\* The SdkError ovr_invoke! returns when `call` fails, and the absence of one.
SdkError(call) == [call |-> call, message |-> ovr_invoke(call)]

NoError == [call |-> "none", message |-> "none"]

\* A panic unwinds; a panic raised while unwinding aborts the process.
Panic(m) == IF m = "running" THEN "unwinding" ELSE "aborted"

shim_Context_new_ShutdownOnFailure(active, opened, resolved, initRet) ==
    LET was_active == active
        stored == compare_and_swap(active, FALSE, TRUE)
    IN  IF was_active
        THEN [error |-> NoError, active |-> stored, result |-> "DuplicateContext", created |-> FALSE,
              calls |-> <<>>]
        ELSE IF ~opened
        THEN [error |-> NoError, active |-> stored, result |-> "OculusRuntimeError", created |-> FALSE,
              calls |-> <<Call("dlopen", 0)>>]
        ELSE IF ~resolved
        THEN [error |-> NoError, active |-> stored, result |-> "OculusRuntimeError", created |-> FALSE,
              calls |-> <<Call("dlopen", 1), Call("dlsym", 0), Call("dlclose", 0)>>]
        ELSE IF ovrFailure(initRet)
        THEN [error |-> SdkError("ovr_Initialize"), active |-> stored, result |-> "SdkError", created |-> FALSE,
              calls |-> <<Call("dlopen", 1), Call("dlsym", 1),
                          Call("ovr_Initialize", initRet), Call("ovr_Shutdown", 0),
                          Call("dlclose", 0)>>]
        ELSE [error |-> NoError, active |-> stored, result |-> "Ok", created |-> TRUE,
              calls |-> <<Call("dlopen", 1), Call("dlsym", 1),
                          Call("ovr_Initialize", initRet)>>]

\* shim.rs Context::new with the loader's and the runtime's answers.
shim_Context_new(active, opened, resolved, initRet) ==
    LET was_active == active
        stored == compare_and_swap(active, FALSE, TRUE)
    IN  IF was_active
        THEN [error |-> NoError, active |-> stored, result |-> "DuplicateContext", created |-> FALSE,
              calls |-> <<>>]
        ELSE IF ~opened
        THEN [error |-> NoError, active |-> stored, result |-> "OculusRuntimeError", created |-> FALSE,
              calls |-> <<Call("dlopen", 0)>>]
        ELSE IF ~resolved
        THEN [error |-> NoError, active |-> stored, result |-> "OculusRuntimeError", created |-> FALSE,
              calls |-> <<Call("dlopen", 1), Call("dlsym", 0), Call("dlclose", 0)>>]
        ELSE IF ovrFailure(initRet)
        THEN [error |-> SdkError("ovr_Initialize"), active |-> stored, result |-> "SdkError", created |-> FALSE,
              calls |-> <<Call("dlopen", 1), Call("dlsym", 1),
                          Call("ovr_Initialize", initRet), Call("dlclose", 0)>>]
        ELSE [error |-> NoError, active |-> stored, result |-> "Ok", created |-> TRUE,
              calls |-> <<Call("dlopen", 1), Call("dlsym", 1),
                          Call("ovr_Initialize", initRet)>>]

shim_Context_drop_CloseFirst(active) ==
    [active |-> FALSE,
     panic |-> ~active,
     calls |-> <<Call("dlclose", 0), Call(ContextDropSteps[1], 0),
                 Call(ContextDropSteps[2], 0)>>]

\* Drop for shim Context (run when the strong count reaches zero): the body,
\* then the FunctionTable field with its library handle.
shim_Context_drop(active) ==
    [active |-> FALSE,
     panic |-> ~active,
     calls |-> <<Call(ContextDropSteps[1], 0), Call(ContextDropSteps[2], 0),
                 Call("dlclose", 0)>>]

\* A holder of the Rc<shim::Context> goes away.
Rc_release(n, active) ==
    LET left == Rc_drop(n) IN
    IF left = 0
    THEN [strong |-> 0] @@ shim_Context_drop(active)
    ELSE [strong |-> left, active |-> active, panic |-> FALSE, calls |-> <<>>]

\* Effect of a handler's native calls on the state of the native side.
LibsAfter(n, calls) == n + CountCalls(calls, "dlopen") - CountCalls(calls, "dlclose")
                         - Cardinality({i \in DOMAIN calls : calls[i].fn = "dlopen" /\ calls[i].ret = 0})

InitsAfter(n, calls) ==
    IF "ovr_Shutdown" \in CallNames(calls) THEN 0
    ELSE n + CountCalls(calls, "ovr_Initialize")

SessionsAfter(n, calls) ==
    n + Cardinality({i \in DOMAIN calls : calls[i].fn = "ovr_Create" /\ calls[i].ret \in SuccessCodes})
      - CountCalls(calls, "ovr_Destroy")

\* lib.rs Context::new.
Context_new ==
    /\ mode = "running"
    /\ \E opened \in BOOLEAN, resolved \in BOOLEAN, initRet \in NativeResults :
         LET n == shim_Context_new(ACTIVE_CONTEXT, opened, resolved, initRet) IN
         \* an answer the handler never asks for is not an input
         /\ "dlopen" \notin CallNames(n.calls) => opened
         /\ "dlsym" \notin CallNames(n.calls) => resolved
         /\ "ovr_Initialize" \notin CallNames(n.calls) => initRet = ovrSuccess
         /\ ACTIVE_CONTEXT' = n.active
         /\ context' = IF n.created THEN "alive" ELSE context
         /\ strong' = IF n.created THEN 1 ELSE strong
         /\ libsOpen' = LibsAfter(libsOpen, n.calls)
         /\ initsSinceShutdown' = InitsAfter(initsSinceShutdown, n.calls)
         /\ last' = [op |-> "Context_new", result |-> n.result, calls |-> n.calls,
                     args |-> [held |-> strong > 0, before |-> context,
                               loads |-> opened /\ resolved, initRet |-> initRet,
                               error |-> n.error]]
    /\ UNCHANGED <<nativeSessions, mode, builders, hmds, rcs, frames, thrVars, swapVars, loadVars, runtime, nativeFrames>>

\* The public Context value is dropped: its Rc is released.
Drop_Context ==
    /\ mode \in {"running", "unwinding"}
    /\ context = "alive"
    /\ LET d == Rc_release(strong, ACTIVE_CONTEXT) IN
       /\ context' = "dropped"
       /\ strong' = d.strong
       /\ ACTIVE_CONTEXT' = d.active
       /\ mode' = IF d.panic THEN Panic(mode) ELSE mode
       /\ libsOpen' = LibsAfter(libsOpen, d.calls)
       /\ initsSinceShutdown' = InitsAfter(initsSinceShutdown, d.calls)
       /\ last' = [op |-> "Drop_Context", result |-> "none", calls |-> d.calls,
                   args |-> [strong |-> strong]]
    /\ UNCHANGED <<nativeSessions, builders, hmds, rcs, frames, thrVars, swapVars, loadVars, runtime, nativeFrames>>

\* The lowest identifier no live value has.
Unused(objs) == {i \in DOMAIN objs : objs[i].state = "none"}

Fresh(objs) == CHOOSE i \in Unused(objs) : \A j \in Unused(objs) : i <= j

Alive(objs) == {i \in DOMAIN objs : objs[i].state = "alive"}

\* lib.rs TrackingOptions::with_all().
TrackingOptions_with_all == {"Orientation", "MagYawCorrection", "Position"}

\* lib.rs TrackingOptions::new().
TrackingOptions_new == {}

\* lib.rs TrackingOptions::position, orientation and mag_yaw_correct: the
\* track_caps after the call.
TrackingOptions_position(track_caps) == track_caps \cup {"Position"}

TrackingOptions_orientation(track_caps) == track_caps \cup {"Orientation"}

TrackingOptions_mag_yaw_correct(track_caps) == track_caps \cup {"MagYawCorrection"}

TrackingOptionsMethods == {"position", "orientation", "mag_yaw_correct"}

TrackingOptions_call(track_caps, method) ==
    CASE method = "position" -> TrackingOptions_position(track_caps)
      [] method = "orientation" -> TrackingOptions_orientation(track_caps)
      [] method = "mag_yaw_correct" -> TrackingOptions_mag_yaw_correct(track_caps)

\* The track_caps after the methods of a sequence were called in turn.
RECURSIVE TrackingOptions_calls(_, _)
TrackingOptions_calls(track_caps, methods) ==
    IF methods = <<>> THEN track_caps
    ELSE TrackingOptions_calls(TrackingOptions_call(track_caps, Head(methods)), Tail(methods))

\* The sequences of at most MaxOptionCalls TrackingOptions methods.
MethodSeqs ==
    UNION {[1..n -> TrackingOptionsMethods] : n \in 0..MaxOptionCalls}

\* The TrackingOptions a caller can have built: new() or with_all(), then any
\* methods.
TrackingOptionsValues ==
    {TrackingOptions_calls(start, methods) :
        start \in {TrackingOptions_new, TrackingOptions_with_all}, methods \in MethodSeqs}

\* lib.rs Context::build_hmd -> HmdBuilder::new: the builder holds a clone
\* of the Rc.
Context_build_hmd ==
    /\ mode = "running"
    /\ context = "alive"
    /\ Unused(builders) # {}
    /\ builders' = [builders EXCEPT ![Fresh(builders)] = HmdBuilder_new]
    /\ strong' = Rc_clone(strong)
    /\ last' = [op |-> "Context_build_hmd", result |-> "Ok", calls |-> <<>>,
                args |-> [builder |-> Fresh(builders)]]
    /\ UNCHANGED <<shared, mode, context, hmds, rcs, frames, thrVars, swapVars, loadVars, runtime, nativeFrames>>

bitflags_remove_Toggle(flags, flag) ==
    IF flag \in flags THEN flags \ {flag} ELSE flags \cup {flag}

\* bitflags! insert and remove, on a set of flag names.
bitflags_remove(flags, flag) == flags \ {flag}

bitflags_insert(flags, flag) == flags \cup {flag}

\* An option method of HmdBuilder that writes `caps`.
HmdBuilder_option(b, method, caps) ==
    /\ mode = "running"
    /\ builders[b].state = "alive"
    /\ builders' = [builders EXCEPT ![b].caps = caps,
                                    ![b].called = @ \cup {method}]
    /\ last' = [op |-> "HmdBuilder_option", result |-> "Ok", calls |-> <<>>,
                args |-> [builder |-> b, method |-> method]]
    /\ UNCHANGED <<shared, mode, context, strong, hmds, rcs, frames, thrVars, swapVars,
                   loadVars, runtime, nativeFrames>>

\* lib.rs HmdBuilder::no_mirror.
HmdBuilder_no_mirror(b) ==
    HmdBuilder_option(b, "no_mirror", bitflags_insert(builders[b].caps, "NoMirrorToWindow"))

\* lib.rs HmdBuilder::no_display.
HmdBuilder_no_display(b) ==
    HmdBuilder_option(b, "no_display", bitflags_insert(builders[b].caps, "DisplayOff"))

\* lib.rs HmdBuilder::no_low_persistence.
HmdBuilder_no_low_persistence(b) ==
    HmdBuilder_option(b, "no_low_persistence",
                      bitflags_remove(builders[b].caps, "LowPersistence"))

\* lib.rs HmdBuilder::no_dynamic_prediction.
HmdBuilder_no_dynamic_prediction(b) ==
    HmdBuilder_option(b, "no_dynamic_prediction",
                      bitflags_remove(builders[b].caps, "DynamicPrediction"))

\* lib.rs HmdBuilder::direct_pentile.
HmdBuilder_direct_pentile(b) ==
    HmdBuilder_option(b, "direct_pentile", bitflags_insert(builders[b].caps, "DirectPentile"))

\* lib.rs HmdBuilder::no_vsync.
HmdBuilder_no_vsync(b) ==
    HmdBuilder_option(b, "no_vsync", bitflags_insert(builders[b].caps, "NoVSync"))

\* lib.rs HmdBuilder::allow_debug.
HmdBuilder_allow_debug(b) ==
    /\ mode = "running"
    /\ builders[b].state = "alive"
    /\ builders' = [builders EXCEPT ![b].allow_debug = TRUE,
                                    ![b].called = @ \cup {"allow_debug"}]
    /\ last' = [op |-> "HmdBuilder_allow_debug", result |-> "Ok", calls |-> <<>>,
                args |-> [builder |-> b]]
    /\ UNCHANGED <<shared, mode, context, strong, hmds, rcs, frames, thrVars, swapVars, loadVars, runtime, nativeFrames>>

\* lib.rs HmdBuilder::track.
HmdBuilder_track(b, tracking_options) ==
    /\ mode = "running"
    /\ builders[b].state = "alive"
    /\ builders' = [builders EXCEPT ![b].track_caps = tracking_options]
    /\ last' = [op |-> "HmdBuilder_track", result |-> "Ok", calls |-> <<>>,
                args |-> [builder |-> b, tracking_options |-> tracking_options]]
    /\ UNCHANGED <<shared, mode, context, strong, hmds, rcs, frames, thrVars, swapVars, loadVars, runtime, nativeFrames>>

\* The HmdBuilder value is dropped: its Rc is released.
Drop_HmdBuilder(b) ==
    /\ mode \in {"running", "unwinding"}
    /\ builders[b].state = "alive"
    /\ LET d == Rc_release(strong, ACTIVE_CONTEXT) IN
       /\ builders' = [builders EXCEPT ![b] = NoHmdBuilder]
       /\ strong' = d.strong
       /\ ACTIVE_CONTEXT' = d.active
       /\ mode' = IF d.panic THEN Panic(mode) ELSE mode
       /\ libsOpen' = LibsAfter(libsOpen, d.calls)
       /\ initsSinceShutdown' = InitsAfter(initsSinceShutdown, d.calls)
       /\ last' = [op |-> "Drop_HmdBuilder", result |-> "none", calls |-> d.calls,
                   args |-> [strong |-> strong]]
    /\ UNCHANGED <<nativeSessions, context, hmds, rcs, frames, thrVars, swapVars, loadVars, runtime, nativeFrames>>

Session_new_CreateFirst(require_headset, detect, createRet) ==
    IF ovrFailure(createRet)
    THEN [error |-> SdkError("ovr_Create"), result |-> "SdkError",
          calls |-> <<Call("ovr_Create", createRet)>>]
    ELSE IF require_headset /\ detect # ovrTrue
    THEN [error |-> NoError, result |-> "NoHeadset",
          calls |-> <<Call("ovr_Create", createRet), Call("ovr_Detect", detect)>>]
    ELSE [error |-> NoError, result |-> "Ok",
          calls |-> <<Call("ovr_Create", createRet), Call("ovr_GetHmdDesc", 0),
                      Call("ovr_GetRenderDesc", 0), Call("ovr_GetRenderDesc", 0)>>]

\* shim.rs Session::new, with the runtime's answers to ovr_Detect
\* (IsOculusHMDConnected) and ovr_Create.
Session_new(require_headset, detect, createRet) ==
    LET probe == IF require_headset THEN <<Call("ovr_Detect", detect)>> ELSE <<>> IN
    IF require_headset /\ detect # ovrTrue
    THEN [error |-> NoError, result |-> "NoHeadset", calls |-> probe]
    ELSE IF ovrFailure(createRet)
    THEN [error |-> SdkError("ovr_Create"), result |-> "SdkError",
          calls |-> probe \o <<Call("ovr_Create", createRet)>>]
    ELSE [error |-> NoError, result |-> "Ok",
          calls |-> probe \o <<Call("ovr_Create", createRet), Call("ovr_GetHmdDesc", 0),
                               Call("ovr_GetRenderDesc", 0), Call("ovr_GetRenderDesc", 0)>>]

Session_configure_tracking_Retrying(trackRet) ==
    [error |-> IF ovrFailure(trackRet) THEN SdkError("ovrHmd_ConfigureTracking") ELSE NoError,
     result |-> IF ovrFailure(trackRet) THEN "SdkError" ELSE "Ok",
     calls |-> IF ovrFailure(trackRet)
               THEN <<Call("ovrHmd_ConfigureTracking", trackRet),
                      Call("ovrHmd_ConfigureTracking", trackRet)>>
               ELSE <<Call("ovrHmd_ConfigureTracking", trackRet)>>]

\* shim.rs Session::configure_tracking.
Session_configure_tracking(trackRet) ==
    [error |-> IF ovrFailure(trackRet) THEN SdkError("ovrHmd_ConfigureTracking") ELSE NoError,
     result |-> IF ovrFailure(trackRet) THEN "SdkError" ELSE "Ok",
     calls |-> <<Call("ovrHmd_ConfigureTracking", trackRet)>>]

Session_drop_Twice == <<Call("ovr_Destroy", 0), Call("ovr_Destroy", 0)>>

\* shim.rs Drop for Session: the body; the Rc field is released after it.
Session_drop == <<Call("ovr_Destroy", 0)>>

Hmd_new_AlwaysConfigure(track_caps, allow_debug, detect, createRet, trackRet) ==
    LET s == Session_new(allow_debug, detect, createRet)
        t == Session_configure_tracking(trackRet)
    IN  IF s.result # "Ok"
        THEN [error |-> s.error, result |-> s.result, calls |-> s.calls, session |-> FALSE, hmd |-> FALSE,
              require_headset |-> allow_debug]
        ELSE IF t.result # "Ok"
        THEN [error |-> t.error, result |-> t.result, calls |-> s.calls \o t.calls \o Session_drop,
              session |-> TRUE, hmd |-> FALSE, require_headset |-> allow_debug]
        ELSE [error |-> NoError, result |-> "Ok", calls |-> s.calls \o t.calls,
              session |-> TRUE, hmd |-> TRUE, require_headset |-> allow_debug]

\* lib.rs Hmd::new: the shim constructor receives allow_debug as its first
\* argument; a non-empty tracking set is configured; an error after the
\* session was created drops it.
Hmd_new(track_caps, allow_debug, detect, createRet, trackRet) ==
    LET s == Session_new(allow_debug, detect, createRet)
        t == Session_configure_tracking(trackRet)
    IN  IF s.result # "Ok"
        THEN [error |-> s.error, result |-> s.result, calls |-> s.calls, session |-> FALSE, hmd |-> FALSE,
              require_headset |-> allow_debug]
        ELSE IF track_caps # {} /\ t.result # "Ok"
        THEN [error |-> t.error, result |-> t.result, calls |-> s.calls \o t.calls \o Session_drop,
              session |-> TRUE, hmd |-> FALSE, require_headset |-> allow_debug]
        ELSE [error |-> NoError, result |-> "Ok",
              calls |-> IF track_caps # {} THEN s.calls \o t.calls ELSE s.calls,
              session |-> TRUE, hmd |-> TRUE, require_headset |-> allow_debug]

\* lib.rs HmdBuilder::build: Hmd::new with a clone of the builder's Rc, which
\* the Session keeps, or which is dropped with the error.
HmdBuilder_build(b) ==
    /\ mode = "running"
    /\ builders[b].state = "alive"
    /\ Unused(hmds) # {}
    /\ \E detect \in {ovrFalse, ovrTrue}, createRet \in NativeResults, trackRet \in NativeResults :
         LET n == Hmd_new(builders[b].track_caps, builders[b].allow_debug,
                          detect, createRet, trackRet)
             cloned == Rc_clone(strong)
             h == Fresh(hmds)
         IN
         \* an answer the handler never asks for is not an input
         /\ "ovr_Detect" \notin CallNames(n.calls) => detect = ovrTrue
         /\ "ovr_Create" \notin CallNames(n.calls) => createRet = ovrSuccess
         /\ "ovrHmd_ConfigureTracking" \notin CallNames(n.calls) => trackRet = ovrSuccess
         /\ SessionsAfter(nativeSessions, n.calls) <= MaxHmds
         /\ nativeSessions' = SessionsAfter(nativeSessions, n.calls)
         /\ hmds' = IF n.hmd THEN [hmds EXCEPT ![h] = Session_value(Session_new_eye_offsets(runtime))]
                     ELSE hmds
         /\ strong' = IF n.hmd THEN cloned ELSE Rc_drop(cloned)
         /\ last' = [op |-> "HmdBuilder_build", result |-> n.result, calls |-> n.calls,
                     args |-> [allow_debug |-> builders[b].allow_debug,
                               track_caps |-> builders[b].track_caps,
                               caps |-> builders[b].caps, builder |-> b,
                               buildersBefore |-> builders, strongBefore |-> strong,
                               require_headset |-> n.require_headset,
                               detect |-> detect, createRet |-> createRet,
                               trackRet |-> trackRet, session |-> n.session,
                               error |-> n.error,
                               hmd |-> h, sessionsBefore |-> nativeSessions,
                               hmdsBefore |-> hmds]]
    /\ UNCHANGED <<ACTIVE_CONTEXT, libsOpen, initsSinceShutdown, mode, context, builders,
                   rcs, frames, thrVars, swapVars, loadVars, runtime, nativeFrames>>

\* A live RenderContext holds `&'a Hmd` of this Hmd.
Hmd_borrowed(h) ==
    \/ \E r \in RcIds : rcs[r].state = "alive" /\ rcs[r].hmd = h
    \/ \E s \in SwapIds : swaps[s].state = "alive" /\ swaps[s].session = h

\* The Hmd value is dropped: Drop for Session, then its Rc is released.  The
\* borrow checker requires that no RenderContext and no SwapTextureSet of
\* this Hmd is alive.
Drop_Hmd(h) ==
    /\ mode \in {"running", "unwinding"}
    /\ hmds[h].state = "alive"
    /\ ~Hmd_borrowed(h)
    /\ LET d == Rc_release(strong, ACTIVE_CONTEXT)
           calls == Session_drop \o d.calls
       IN
       /\ hmds' = [hmds EXCEPT ![h] = NoSession]
       /\ nativeSessions' = SessionsAfter(nativeSessions, calls)
       /\ strong' = d.strong
       /\ ACTIVE_CONTEXT' = d.active
       /\ mode' = IF d.panic THEN Panic(mode) ELSE mode
       /\ libsOpen' = LibsAfter(libsOpen, calls)
       /\ initsSinceShutdown' = InitsAfter(initsSinceShutdown, calls)
       /\ last' = [op |-> "Drop_Hmd", result |-> "none", calls |-> calls,
                   args |-> [strong |-> strong, hmd |-> h]]
    /\ UNCHANGED <<context, builders, rcs, frames, thrVars, swapVars, loadVars, runtime, nativeFrames>>

\* shim.rs CreateRenderContext::new for RenderContext, with the runtime's
\* answers to configure-rendering, the direct-mode query and window-attach,
\* and what it reports about the eyes: eye_render_desc[i] is filled by
\* configure-rendering, the texture sizes are asked for eye index 0, then 1.
RenderContext_new(cfgRet, direct, attachRet, native) ==
    LET cfg == <<Call("ovrHmd_ConfigureRendering", cfgRet)>>
        attach == IF direct THEN <<Call("ovrHmd_AttachToWindow", attachRet)>> ELSE <<>>
        eye_render_desc == [i \in EyeIndices |->
                               [Fov |-> native.Fov[i],
                                HmdToEyeViewOffset |-> native.HmdToEyeViewOffset[i]]]
    IN  IF ovrFailure(cfgRet)
        THEN [error |-> SdkError("ovrHmd_ConfigureRendering"), result |-> "SdkError",
              calls |-> cfg, value |-> NoRenderContext]
        ELSE IF direct /\ ovrFailure(attachRet)
        THEN [error |-> SdkError("ovrHmd_AttachToWindow"), result |-> "SdkError",
              calls |-> cfg \o attach, value |-> NoRenderContext]
        ELSE [error |-> NoError, result |-> "Ok",
              calls |-> cfg \o attach \o <<Call("ovrHmd_GetFovTextureSize", 0),
                                            Call("ovrHmd_GetFovTextureSize", 1)>>,
              value |-> [state |-> "alive", hmd |-> 0,
                         eye_texture_sizes |-> [i \in EyeIndices |-> native.TextureSize[i]],
                         fovs |-> [i \in EyeIndices |-> eye_render_desc[i].Fov],
                         offsets |-> [i \in EyeIndices |->
                                         eye_render_desc[i].HmdToEyeViewOffset]]]

RenderContext_drop_Silent(revRet) ==
    [panic |-> FALSE, config |-> "null", caps |-> {},
     calls |-> <<Call("ovrHmd_ConfigureRendering(null)", revRet)>>]

\* shim.rs Drop for RenderContext: configure-rendering with a null
\* configuration and empty distortion caps, under ovr_expect!.
RenderContext_drop(revRet) ==
    [panic |-> ovrFailure(revRet), config |-> "null", caps |-> {},
     calls |-> <<Call("ovrHmd_ConfigureRendering(null)", revRet)>>]

\* lib.rs Hmd::init_render.
Hmd_init_render(h) ==
    /\ mode = "running"
    /\ hmds[h].state = "alive"
    /\ Unused(rcs) # {}
    /\ \E cfgRet \in NativeResults, direct \in BOOLEAN, attachRet \in NativeResults :
         LET n == RenderContext_new(cfgRet, direct, attachRet, runtime)
             r == Fresh(rcs)
         IN
         \* an answer the handler never asks for is not an input; whether the
         \* device is in direct-display mode is a fact about the device
         /\ "ovrHmd_AttachToWindow" \notin CallNames(n.calls) => attachRet = ovrSuccess
         /\ rcs' = IF n.result = "Ok" THEN [rcs EXCEPT ![r] = [n.value EXCEPT !.hmd = h]]
                   ELSE rcs
         /\ last' = [op |-> "Hmd_init_render", result |-> n.result, calls |-> n.calls,
                     args |-> [hmd |-> h, rc |-> r, direct |-> direct, cfgRet |-> cfgRet,
                               error |-> n.error,
                               attachRet |-> attachRet, rcsBefore |-> rcs]]
    /\ UNCHANGED <<shared, mode, context, strong, builders, hmds, frames, thrVars, swapVars, loadVars, runtime, nativeFrames>>

RenderContext_borrowed_Never(r) == FALSE

\* A Frame holds `&'a RenderContext<'a>`.
RenderContext_borrowed(r) == \E f \in FrameIds : frames[f].state = "alive" /\ frames[f].rc = r

\* The RenderContext value is dropped.
Drop_RenderContext(r) ==
    /\ mode \in {"running", "unwinding"}
    /\ rcs[r].state = "alive"
    /\ ~RenderContext_borrowed(r)
    /\ \E revRet \in NativeResults :
         LET d == RenderContext_drop(revRet) IN
         /\ rcs' = [rcs EXCEPT ![r] = NoRenderContext]
         /\ mode' = IF d.panic THEN Panic(mode) ELSE mode
         /\ last' = [op |-> "Drop_RenderContext", result |-> "none", calls |-> d.calls,
                     args |-> [rc |-> r, hmd |-> rcs[r].hmd, config |-> d.config,
                               caps |-> d.caps, mode |-> mode]]
    /\ UNCHANGED <<shared, context, strong, builders, hmds, frames, thrVars, swapVars, loadVars, runtime, nativeFrames>>

\* Effect of a handler's native calls on the frames the runtime has open.
FramesAfter(n, calls) ==
    n + CountCalls(calls, "ovrHmd_BeginFrame") - CountCalls(calls, "ovrHmd_EndFrame")

\* shim.rs Frame::new: begin-frame, then the eye-pose query with the offsets
\* cached in the RenderContext.
shim_Frame_new(owning_context, texture_binding, native) ==
    [calls |-> <<Call("ovrHmd_BeginFrame", 0), Call("ovrHmd_GetEyePoses", 0)>>,
     offsets |-> owning_context.offsets,
     poses |-> ovrHmd_GetEyePoses(native, owning_context.offsets),
     textures |-> texture_binding]

shim_Frame_drop_Nothing == <<>>

\* shim.rs Drop for Frame.
shim_Frame_drop == <<Call("ovrHmd_EndFrame", 0)>>

shim_Frame_drop_arguments_Requeried(self) ==
    [poses |-> ovrHmd_GetEyePoses(runtime, rcs[self.rc].offsets),
     textures |-> self.textures.textures]

\* shim.rs Drop for Frame: what it passes to end-frame, `&self.poses` and
\* `&self.textures.textures`.
shim_Frame_drop_arguments(self) ==
    [poses |-> self.poses, textures |-> self.textures.textures]

\* The EyeRenderOrder arrays the runtime may report in the native HMD
\* description.
EyeRenderOrders == {<<0, 1>>, <<1, 0>>, <<0, 2>>}

shim_Frame_eye_poses_IndexOrder(self, order) ==
    IF \E k \in DOMAIN order : order[k] \notin EyeIndices
    THEN [panic |-> TRUE, result |-> <<>>]
    ELSE [panic |-> FALSE,
          result |-> [k \in DOMAIN order |->
                         LET position == self.poses[k - 1].Position
                             orientation == self.poses[k - 1].Orientation
                         IN  [eye |-> IF k - 1 = 0 THEN "Left" ELSE "Right",
                              orientation |-> <<orientation.w,
                                                <<orientation.x, orientation.y,
                                                  orientation.z>>>>,
                              position |-> <<position.x, position.y, position.z>>]]]

\* shim.rs Frame::eye_poses: one entry per element of EyeRenderOrder, in that
\* order; an element other than 0 and 1 panics.
shim_Frame_eye_poses(self, order) ==
    IF \E k \in DOMAIN order : order[k] \notin EyeIndices
    THEN [panic |-> TRUE, result |-> <<>>]
    ELSE [panic |-> FALSE,
          result |-> [k \in DOMAIN order |->
                         LET position == self.poses[order[k]].Position
                             orientation == self.poses[order[k]].Orientation
                         IN  [eye |-> IF order[k] = 0 THEN "Left" ELSE "Right",
                              orientation |-> <<orientation.w,
                                                <<orientation.x, orientation.y,
                                                  orientation.z>>>>,
                              position |-> <<position.x, position.y, position.z>>]]]

\* shim.rs Frame::new(owning_context: &'a RenderContext, texture_binding):
\* both arguments are shared borrows.
Frame_new(r, texture_binding) ==
    /\ mode = "running"
    /\ rcs[r].state = "alive"
    /\ Unused(frames) # {}
    /\ LET n == shim_Frame_new(rcs[r], texture_binding, runtime) IN
       /\ frames' = [frames EXCEPT ![Fresh(frames)] =
                        [state |-> "alive", rc |-> r, poses |-> n.poses,
                         textures |-> n.textures,
                         begun |-> [poses |-> ovrHmd_GetEyePoses(runtime, rcs[r].offsets),
                                    texture_binding |-> texture_binding]]]
       /\ nativeFrames' = FramesAfter(nativeFrames, n.calls)
       /\ last' = [op |-> "Frame_new", result |-> "Ok", calls |-> n.calls,
                   args |-> [rc |-> r, frame |-> Fresh(frames), offsets |-> n.offsets,
                             texture_binding |-> texture_binding,
                             open |-> {f \in FrameIds : frames[f].state = "alive"
                                                        /\ frames[f].rc = r}]]
    /\ UNCHANGED <<shared, mode, context, strong, builders, hmds, rcs, thrVars, swapVars, loadVars, runtime>>

\* shim.rs Frame::eye_poses.
Frame_eye_poses(f) ==
    /\ mode = "running"
    /\ frames[f].state = "alive"
    /\ \E order \in EyeRenderOrders :
         LET e == shim_Frame_eye_poses(frames[f], order) IN
         /\ mode' = IF e.panic THEN Panic(mode) ELSE mode
         /\ last' = [op |-> "Frame_eye_poses",
                     result |-> IF e.panic THEN <<"panic">> ELSE e.result,
                     calls |-> <<>>,
                     args |-> [frame |-> f, order |-> order, panic |-> e.panic,
                               mode |-> mode]]
    /\ UNCHANGED <<shared, context, strong, builders, hmds, rcs, frames, thrVars, swapVars, loadVars, runtime, nativeFrames>>

\* The Frame value is dropped: Drop for Frame.
Drop_Frame(f) ==
    /\ mode \in {"running", "unwinding"}
    /\ frames[f].state = "alive"
    /\ frames' = [frames EXCEPT ![f] = NoFrame]
    /\ nativeFrames' = FramesAfter(nativeFrames, shim_Frame_drop)
    /\ last' = [op |-> "Drop_Frame", result |-> "none", calls |-> shim_Frame_drop,
                args |-> [rc |-> frames[f].rc, frame |-> f,
                          end_frame |-> shim_Frame_drop_arguments(frames[f]),
                          begun |-> frames[f].begun]]
    /\ UNCHANGED <<shared, mode, context, strong, builders, hmds, rcs, thrVars, swapVars, loadVars, runtime>>

(***************************************************************************)
(* shim.rs: the metadata a RenderContext caches, and what is derived from  *)
(* it.                                                                     *)
(***************************************************************************)

\* `x as u32` for an i32 x: x itself when it is not negative, and 2^32 + x
\* otherwise, which is kept symbolic.
as_u32(x) == IF x >= 0 THEN x ELSE <<"2^32 +", x>>

target_texture_size_Swapped(self, eye) ==
    LET size == IF eye = "Left" THEN self.eye_texture_sizes[1]
                ELSE self.eye_texture_sizes[0]
    IN  <<as_u32(size.w), as_u32(size.h)>>

\* shim.rs RenderContext::target_texture_size.
target_texture_size(self, eye) ==
    LET size == IF eye = "Left" THEN self.eye_texture_sizes[0]
                ELSE self.eye_texture_sizes[1]
    IN  <<as_u32(size.w), as_u32(size.h)>>

\* The native ovrMatrix4f_Projection, a function of its four arguments whose
\* entries are kept symbolic: M[i][j] is row i, column j.
ovrMatrix4f_Projection(fov, znear, zfar, projectionModFlags) ==
    [M |-> [i \in 0..3 |-> [j \in 0..3 |->
               [row |-> i, col |-> j, fov |-> fov, znear |-> znear, zfar |-> zfar,
                flags |-> projectionModFlags]]]]

projection_matrix_ByEye(self, eye, near_z, far_z) ==
    LET fov == IF eye = "Left" THEN self.fovs[0] ELSE self.fovs[1]
        flags == {"ovrProjection_RightHanded", "ovrProjection_ClipRangeOpenGL", eye}
        pm == ovrMatrix4f_Projection(fov, near_z, far_z, flags).M
    IN  [i \in 0..3 |-> [j \in 0..3 |-> pm[j][i]]]

\* shim.rs RenderContext::projection_matrix: the native matrix for the cached
\* fov of the eye, with rows and columns exchanged.
projection_matrix(self, eye, near_z, far_z) ==
    LET fov == IF eye = "Left" THEN self.fovs[0] ELSE self.fovs[1]
        flags == {"ovrProjection_RightHanded", "ovrProjection_ClipRangeOpenGL"}
        pm == ovrMatrix4f_Projection(fov, near_z, far_z, flags).M
    IN  [i \in 0..3 |-> [j \in 0..3 |-> pm[j][i]]]

\* ffi ovrRenderAPI_OpenGL.
ovrRenderAPI_OpenGL == 1

\* shim.rs TextureBinding::new, the inner fn texture_struct.
texture_struct(size, id) ==
    [API |-> ovrRenderAPI_OpenGL,
     TextureSize |-> size,
     RenderViewport |-> [Pos |-> [x |-> 0, y |-> 0], Size |-> size],
     TexId |-> id]

TextureBinding_new_Swapped(left_pair, right_pair) ==
    [textures |-> [i \in EyeIndices |->
                      IF i = 0 THEN texture_struct(right_pair[1], right_pair[2])
                      ELSE texture_struct(left_pair[1], left_pair[2])]]

\* shim.rs TextureBinding::new: a pair is (size, id).
TextureBinding_new(left_pair, right_pair) ==
    [textures |-> [i \in EyeIndices |->
                      IF i = 0 THEN texture_struct(left_pair[1], left_pair[2])
                      ELSE texture_struct(right_pair[1], right_pair[2])]]

\* shim.rs RenderContext::create_binding.
create_binding(self, tex_id_left, tex_id_right) ==
    TextureBinding_new(<<self.eye_texture_sizes[0], tex_id_left>>,
                       <<self.eye_texture_sizes[1], tex_id_right>>)

\* OpenGL texture ids and (near_z, far_z) pairs a caller passes.
TexIds == {3, 4}

\* The ids of the one binding the program of SpecRender renders to.
RenderTexIds == <<3, 4>>

ClipPlanes == {<<1, 1000>>, <<2, 500>>}

\* A method of a live RenderContext that changes nothing but `last`.
RenderContext_method(r, op, result, calls, args) ==
    /\ mode = "running"
    /\ rcs[r].state = "alive"
    /\ last' = [op |-> op, result |-> result, calls |-> calls, args |-> args]
    /\ UNCHANGED <<shared, mode, context, strong, builders, hmds, rcs, frames, thrVars, swapVars,
                   loadVars, runtime, nativeFrames>>

RenderContext_target_texture_size(r) ==
    \E eye \in Eyes :
        RenderContext_method(r, "RenderContext_target_texture_size",
                             target_texture_size(rcs[r], eye), <<>>,
                             [rc |-> r, eye |-> eye])

RenderContext_projection_matrix(r) ==
    \E eye \in Eyes, z \in ClipPlanes :
        RenderContext_method(r, "RenderContext_projection_matrix",
                             projection_matrix(rcs[r], eye, z[1], z[2]),
                             <<Call("ovrMatrix4f_Projection", 0)>>,
                             [rc |-> r, eye |-> eye, near_z |-> z[1], far_z |-> z[2]])

create_binding_calls_Registering == <<Call("ovrHmd_EndFrame", 0)>>

\* shim.rs RenderContext::create_binding and TextureBinding::new: the native
\* calls they make, none.
create_binding_calls == <<>>

RenderContext_create_binding(r) ==
    \E tex_id_left \in TexIds, tex_id_right \in TexIds :
        RenderContext_method(r, "RenderContext_create_binding",
                             create_binding(rcs[r], tex_id_left, tex_id_right),
                             create_binding_calls,
                             [rc |-> r, tex_id_left |-> tex_id_left,
                              tex_id_right |-> tex_id_right])

\* shim.rs RenderContext::dismiss_hsw: forwards to the Hmd.
RenderContext_dismiss_hsw(r) ==
    RenderContext_method(r, "RenderContext_dismiss_hsw", "none",
                         <<Call("ovrHmd_DismissHSWDisplay", 0)>>, [rc |-> r])

\* shim.rs RenderContext::recenter_pose: forwards to the Hmd.
RenderContext_recenter_pose(r) ==
    RenderContext_method(r, "RenderContext_recenter_pose", "none",
                         <<Call("ovrHmd_RecenterPose", 0)>>, [rc |-> r])

\* The runtime comes to answer differently about the eyes (another profile or
\* lens setting); nothing the binding holds changes.
Runtime_changes ==
    /\ mode = "running"
    /\ \E new \in Runtimes \ {runtime} : runtime' = new
    /\ last' = [op |-> "Runtime_changes", result |-> "none", calls |-> <<>>,
                args |-> [none |-> TRUE]]
    /\ UNCHANGED <<shared, mode, context, strong, builders, hmds, rcs, frames, thrVars, swapVars,
                   loadVars, nativeFrames>>

\* The program ends, by returning from main or at the end of unwinding:
\* every value has been dropped by then.
Exit ==
    /\ mode \in {"running", "unwinding"}
    /\ context # "alive"
    /\ Alive(builders) = {} /\ Alive(hmds) = {} /\ Alive(rcs) = {} /\ Alive(frames) = {}
    /\ mode' = "exited"
    /\ last' = [op |-> "Exit", result |-> "none", calls |-> <<>>, args |-> [none |-> TRUE]]
    /\ UNCHANGED <<shared, context, strong, builders, hmds, rcs, frames, thrVars, swapVars, loadVars, runtime, nativeFrames>>

(***************************************************************************)
(* Spec: the life of the Context, its builders and its Hmds.               *)
(***************************************************************************)
Next ==
    \/ Context_new
    \/ Drop_Context
    \/ Context_build_hmd
    \/ \E b \in BuilderIds : HmdBuilder_allow_debug(b)
    \/ \E b \in BuilderIds, tracking_options \in {TrackingOptions_new, TrackingOptions_with_all} :
           HmdBuilder_track(b, tracking_options)
    \/ \E b \in BuilderIds : HmdBuilder_build(b)
    \/ \E b \in BuilderIds : Drop_HmdBuilder(b)
    \/ \E h \in HmdIds : Drop_Hmd(h)
    \/ Exit

Spec == Init /\ [][Next]_vars

(***************************************************************************)
(* SpecRender: rendering on Hmds that were built.  It starts where         *)
(* Context::new, build_hmd and one or more build calls have succeeded and  *)
(* the builder is gone, and runs until everything is dropped.              *)
(***************************************************************************)
HmdsBuilt(n) ==
    /\ ACTIVE_CONTEXT = TRUE
    /\ libsOpen = 1
    /\ initsSinceShutdown = 1
    /\ nativeSessions = n
    /\ mode = "running"
    /\ context = "alive"
    /\ strong = 1 + n
    /\ builders = [b \in BuilderIds |-> NoHmdBuilder]
    /\ hmds = [h \in HmdIds |-> IF h <= n THEN Session_value(Session_new_eye_offsets(DefaultRuntime))
                                    ELSE NoSession]
    /\ rcs = [r \in RcIds |-> NoRenderContext]
    /\ frames = [f \in FrameIds |-> NoFrame]

InitRender ==
    /\ \E n \in HmdIds : HmdsBuilt(n)
    /\ last = [op |-> "none", result |-> "none", calls |-> <<>>, args |-> [none |-> TRUE]]
    /\ thrInit
    /\ loadInit
    /\ swapInit
    /\ runtime = DefaultRuntime
    /\ nativeFrames = 0

NextRender ==
    \/ \E h \in HmdIds : Hmd_init_render(h)
    \/ \E r \in RcIds :
          Frame_new(r, create_binding(rcs[r], RenderTexIds[1], RenderTexIds[2]))
    \/ \E f \in FrameIds : Frame_eye_poses(f)
    \/ \E f \in FrameIds : Drop_Frame(f)
    \/ \E r \in RcIds : Drop_RenderContext(r)
    \/ \E h \in HmdIds : Drop_Hmd(h)
    \/ Drop_Context
    \/ Exit

SpecRender == InitRender /\ [][NextRender]_vars

(***************************************************************************)
(* SpecMetadata: the life of one RenderContext at a time on one Hmd and of *)
(* one Frame at a time on it, with the methods that read the cached        *)
(* metadata, while the runtime's answers about the eyes and the head       *)
(* change.                                                                 *)
(***************************************************************************)
InitMetadata ==
    /\ HmdsBuilt(1)
    /\ last = [op |-> "none", result |-> "none", calls |-> <<>>, args |-> [none |-> TRUE]]
    /\ thrInit
    /\ loadInit
    /\ swapInit
    /\ runtime \in Runtimes
    /\ nativeFrames = 0

NextMetadata ==
    \/ \E h \in HmdIds : Alive(rcs) = {} /\ Hmd_init_render(h)
    \/ \E r \in RcIds : RenderContext_target_texture_size(r)
    \/ \E r \in RcIds : RenderContext_projection_matrix(r)
    \/ \E r \in RcIds : RenderContext_create_binding(r)
    \/ \E r \in RcIds : RenderContext_dismiss_hsw(r)
    \/ \E r \in RcIds : RenderContext_recenter_pose(r)
    \/ \E r \in RcIds, tex_id_left \in TexIds, tex_id_right \in TexIds :
          /\ Alive(frames) = {}
          /\ Frame_new(r, create_binding(rcs[r], tex_id_left, tex_id_right))
    \/ \E f \in FrameIds : Frame_eye_poses(f)
    \/ \E f \in FrameIds : Drop_Frame(f)
    \/ \E r \in RcIds : Drop_RenderContext(r)
    \/ Runtime_changes

SpecMetadata == InitMetadata /\ [][NextMetadata]_vars

(***************************************************************************)
(* SpecBuilder: one HmdBuilder, its option methods in any order and any     *)
(* number of times, and the Hmds built from it.                            *)
(***************************************************************************)
InitBuilder ==
    /\ HmdsBuilt(0)
    /\ last = [op |-> "none", result |-> "none", calls |-> <<>>, args |-> [none |-> TRUE]]
    /\ thrInit
    /\ loadInit
    /\ swapInit
    /\ runtime = DefaultRuntime
    /\ nativeFrames = 0

NextBuilder ==
    \/ Alive(builders) = {} /\ Context_build_hmd
    \/ \E b \in BuilderIds : HmdBuilder_no_mirror(b)
    \/ \E b \in BuilderIds : HmdBuilder_no_display(b)
    \/ \E b \in BuilderIds : HmdBuilder_no_low_persistence(b)
    \/ \E b \in BuilderIds : HmdBuilder_no_dynamic_prediction(b)
    \/ \E b \in BuilderIds : HmdBuilder_direct_pentile(b)
    \/ \E b \in BuilderIds : HmdBuilder_no_vsync(b)
    \/ \E b \in BuilderIds : HmdBuilder_allow_debug(b)
    \/ \E b \in BuilderIds, tracking_options \in TrackingOptionsValues :
           HmdBuilder_track(b, tracking_options)
    \/ \E b \in BuilderIds : HmdBuilder_build(b)

SpecBuilder == InitBuilder /\ [][NextBuilder]_vars

(***************************************************************************)
(* SpecSwap: shim.rs SwapTextureSet on a Session that was built: sets are   *)
(* created, advanced, read and dropped.                                    *)
(***************************************************************************)

\* The textures of a set the runtime creates: `count` textures whose ids
\* start at `base`, at the offsets 0 .. count - 1 from `Textures`.
SwapTextures(count, base) == [i \in 0..(count - 1) |-> [TexId |-> base + i]]

\* The TexId the runtime gives the first texture of the set it creates for
\* the SwapTextureSet s: no two sets share a texture.
TexIdBase(s) == 10 * s

\* `a % b` of Rust for i32: the remainder, with the sign of a.
i32_rem(a, b) == IF a >= 0 THEN a % b ELSE 0 - ((0 - a) % b)

\* Effect of a handler's native calls on the swap texture sets the runtime
\* holds.
SwapSetsAfter(n, calls) ==
    n + Cardinality({i \in DOMAIN calls : calls[i].fn = "ovr_CreateSwapTextureSetGL"
                                           /\ calls[i].ret \in SuccessCodes})
      - CountCalls(calls, "ovr_DestroySwapTextureSet")

\* shim.rs SwapTextureSet::new, with the runtime's answer to
\* ovr_CreateSwapTextureSetGL and the set it wrote on success.
shim_SwapTextureSet_new(createRet, texture_set) ==
    LET create == <<Call("ovr_CreateSwapTextureSetGL", createRet)>> IN
    IF ovrFailure(createRet)
    THEN [error |-> SdkError("ovr_CreateSwapTextureSetGL"), result |-> "SdkError",
          calls |-> create, value |-> NoSwapTextureSet]
    ELSE [error |-> NoError, result |-> "Ok", calls |-> create,
          value |-> [state |-> "alive", texture_set |-> texture_set,
                     trail |-> <<texture_set.CurrentIndex>>, session |-> 0, layer |-> 0]]

shim_SwapTextureSet_advance_NoWrap(texture_set) ==
    [texture_set EXCEPT !.CurrentIndex = texture_set.CurrentIndex + 1]

\* shim.rs SwapTextureSet::advance.
shim_SwapTextureSet_advance(texture_set) ==
    [texture_set EXCEPT
        !.CurrentIndex = i32_rem(texture_set.CurrentIndex + 1, texture_set.TextureCount)]

\* shim.rs SwapTextureSet::current: the TexId at offset CurrentIndex, or any
\* value when the offset is outside the textures.
shim_SwapTextureSet_current(texture_set) ==
    IF texture_set.CurrentIndex \in DOMAIN texture_set.Textures
    THEN {texture_set.Textures[texture_set.CurrentIndex].TexId}
    ELSE {0 - 1} \cup {texture_set.Textures[i].TexId : i \in DOMAIN texture_set.Textures}

\* shim.rs Drop for SwapTextureSet.
shim_SwapTextureSet_drop == <<Call("ovr_DestroySwapTextureSet", 0)>>

\* The last TextureCount + 1 values of CurrentIndex.
TrailAfter(trail, index, count) ==
    LET all == Append(trail, index) IN
    IF Len(all) > count + 1 THEN SubSeq(all, Len(all) - count, Len(all)) ELSE all

SwapTextureSet_new(h) ==
    /\ mode = "running"
    /\ hmds[h].state = "alive"
    /\ Unused(swaps) # {}
    /\ \E createRet \in NativeResults, count \in 1..MaxTextures :
         LET s == Fresh(swaps)
             n == shim_SwapTextureSet_new(createRet,
                      ovrSwapTextureSet(SwapTextures(count, TexIdBase(s)), count, 0))
         IN
         \* a set the runtime did not create has no contents to choose
         /\ createRet \notin SuccessCodes => count = 1
         /\ SwapSetsAfter(nativeSwapSets, n.calls) <= MaxSwapSets
         /\ nativeSwapSets' = SwapSetsAfter(nativeSwapSets, n.calls)
         /\ swaps' = IF n.result = "Ok"
                     THEN [swaps EXCEPT ![s] = [n.value EXCEPT !.session = h]]
                     ELSE swaps
         /\ last' = [op |-> "SwapTextureSet_new", result |-> n.result, calls |-> n.calls,
                     args |-> [session |-> h, set |-> s, createRet |-> createRet,
                               error |-> n.error,
                               swapsBefore |-> swaps]]
    /\ UNCHANGED <<shared, mode, context, strong, builders, hmds, rcs, frames, thrVars,
                   loadVars, runtime, nativeFrames>>

SwapTextureSet_advance(s) ==
    /\ mode = "running"
    /\ swaps[s].state = "alive"
    /\ LET advanced == shim_SwapTextureSet_advance(swaps[s].texture_set) IN
       /\ swaps' = [swaps EXCEPT ![s].texture_set = advanced,
                                 ![s].trail = TrailAfter(swaps[s].trail,
                                                         advanced.CurrentIndex,
                                                         advanced.TextureCount)]
       /\ last' = [op |-> "SwapTextureSet_advance", result |-> "none", calls |-> <<>>,
                   args |-> [set |-> s, before |-> swaps[s].texture_set]]
    /\ UNCHANGED <<shared, mode, context, strong, builders, hmds, rcs, frames, thrVars,
                   loadVars, nativeSwapSets, runtime, nativeFrames>>

SwapTextureSet_current(s) ==
    /\ mode = "running"
    /\ swaps[s].state = "alive"
    /\ \E id \in shim_SwapTextureSet_current(swaps[s].texture_set) :
         last' = [op |-> "SwapTextureSet_current", result |-> id, calls |-> <<>>,
                  args |-> [set |-> s]]
    /\ UNCHANGED <<shared, mode, context, strong, builders, hmds, rcs, frames, thrVars,
                   swapVars, loadVars, runtime, nativeFrames>>

\* The eye offsets a caller of Frame::new may pass: those of any device.
EyeOffsetChoices == {Session_new_eye_offsets(native) : native \in Runtimes}

\* shim.rs Frame::new(session, eye_offsets, frame_index): the predicted
\* display time, the tracking state at that time, and the eye poses computed
\* from the tracked head pose and the eye_offsets argument.
shim_Frame_new_session(eye_offsets, frame_index, native) ==
    [calls |-> <<Call("ovr_GetPredictedDisplayTime", frame_index),
                 Call("ovr_GetTrackingState", 0), Call("ovr_CalcEyePoses", 0)>>,
     offsets |-> eye_offsets,
     poses |-> ovr_CalcEyePoses(native.HeadPose, eye_offsets)]

\* A Frame is computed for the Session h.
Session_Frame_new(h) ==
    /\ mode = "running"
    /\ hmds[h].state = "alive"
    /\ \E eye_offsets \in EyeOffsetChoices, frame_index \in 0..1 :
         LET n == shim_Frame_new_session(eye_offsets, frame_index, runtime) IN
         last' = [op |-> "Session_Frame_new", result |-> "Ok", calls |-> n.calls,
                  args |-> [session |-> h, eye_offsets |-> eye_offsets,
                            frame_index |-> frame_index, offsets |-> n.offsets,
                            poses |-> n.poses]]
    /\ UNCHANGED <<shared, mode, context, strong, builders, hmds, rcs, frames, thrVars,
                   swapVars, loadVars, runtime, nativeFrames>>

\* shim.rs EyeRenderDetails::for_eye.
EyeRenderDetails_for_eye(eye) ==
    <<Call("ovr_GetHmdDesc", 0), Call("ovr_GetFovTextureSize", eye)>>

\* shim.rs Layer::new: the details of eye 0 and eye 1, then the left set and
\* the right set, each under try!.  When the right set fails the left one,
\* a temporary by then, is dropped on the way out.
shim_Layer_new(leftRet, rightRet, left_set, right_set) ==
    LET details == EyeRenderDetails_for_eye(0) \o EyeRenderDetails_for_eye(1)
        left == shim_SwapTextureSet_new(leftRet, left_set)
        right == shim_SwapTextureSet_new(rightRet, right_set)
    IN  IF left.result # "Ok"
        THEN [error |-> left.error, result |-> left.result,
              calls |-> details \o left.calls,
              texture_sets |-> <<NoSwapTextureSet, NoSwapTextureSet>>]
        ELSE IF right.result # "Ok"
        THEN [error |-> right.error, result |-> right.result,
              calls |-> details \o left.calls \o right.calls \o shim_SwapTextureSet_drop,
              texture_sets |-> <<NoSwapTextureSet, NoSwapTextureSet>>]
        ELSE [error |-> NoError, result |-> "Ok",
              calls |-> details \o left.calls \o right.calls,
              texture_sets |-> <<left.value, right.value>>]

\* The drop of a Layer: its fields in declaration order, texture_sets first,
\* the left set before the right one.
shim_Layer_drop == shim_SwapTextureSet_drop \o shim_SwapTextureSet_drop

\* The second unused SwapTextureSet slot.
Fresh2(objs) == CHOOSE i \in Unused(objs) \ {Fresh(objs)} :
                    \A j \in Unused(objs) \ {Fresh(objs)} : i <= j

\* A Layer is created for the Session h; the Layer is named by the slot of
\* its left set.
Layer_new(h) ==
    /\ mode = "running"
    /\ hmds[h].state = "alive"
    /\ Cardinality(Unused(swaps)) >= 2
    /\ \E leftRet \in NativeResults, rightRet \in NativeResults :
         LET l == Fresh(swaps)
             r == Fresh2(swaps)
             n == shim_Layer_new(leftRet, rightRet,
                      ovrSwapTextureSet(SwapTextures(MaxTextures, TexIdBase(l)), MaxTextures, 0),
                      ovrSwapTextureSet(SwapTextures(MaxTextures, TexIdBase(r)), MaxTextures, 0))
         IN
         \* an answer the handler never asks for is not an input
         /\ CountCalls(n.calls, "ovr_CreateSwapTextureSetGL") < 2 => rightRet = ovrSuccess
         /\ SwapSetsAfter(nativeSwapSets, n.calls) <= MaxSwapSets
         /\ nativeSwapSets' = SwapSetsAfter(nativeSwapSets, n.calls)
         /\ swaps' = IF n.result = "Ok"
                     THEN [swaps EXCEPT
                             ![l] = [n.texture_sets[1] EXCEPT !.session = h, !.layer = l],
                             ![r] = [n.texture_sets[2] EXCEPT !.session = h, !.layer = l]]
                     ELSE swaps
         /\ last' = [op |-> "Layer_new", result |-> n.result, calls |-> n.calls,
                     args |-> [session |-> h, set |-> l, createRet |-> leftRet,
                               rightRet |-> rightRet, error |-> n.error,
                               swapsBefore |-> swaps, nativeBefore |-> nativeSwapSets]]
    /\ UNCHANGED <<shared, mode, context, strong, builders, hmds, rcs, frames, thrVars,
                   loadVars, runtime, nativeFrames>>

\* The Layer l is dropped, and its two sets with it.
Drop_Layer(l) ==
    /\ mode \in {"running", "unwinding"}
    /\ swaps[l].state = "alive"
    /\ swaps[l].layer = l
    /\ swaps' = [s \in SwapIds |-> IF swaps[s].layer = l THEN NoSwapTextureSet ELSE swaps[s]]
    /\ nativeSwapSets' = SwapSetsAfter(nativeSwapSets, shim_Layer_drop)
    /\ last' = [op |-> "Drop_Layer", result |-> "none", calls |-> shim_Layer_drop,
                args |-> [set |-> l, swapsBefore |-> swaps]]
    /\ UNCHANGED <<shared, mode, context, strong, builders, hmds, rcs, frames, thrVars,
                   loadVars, runtime, nativeFrames>>

\* The SwapTextureSet value is dropped by the caller that created it.
Drop_SwapTextureSet(s) ==
    /\ mode \in {"running", "unwinding"}
    /\ swaps[s].state = "alive"
    /\ swaps[s].layer = 0
    /\ swaps' = [swaps EXCEPT ![s] = NoSwapTextureSet]
    /\ nativeSwapSets' = SwapSetsAfter(nativeSwapSets, shim_SwapTextureSet_drop)
    /\ last' = [op |-> "Drop_SwapTextureSet", result |-> "none",
                calls |-> shim_SwapTextureSet_drop, args |-> [set |-> s]]
    /\ UNCHANGED <<shared, mode, context, strong, builders, hmds, rcs, frames, thrVars,
                   loadVars, runtime, nativeFrames>>

InitSwap ==
    /\ HmdsBuilt(1)
    /\ last = [op |-> "none", result |-> "none", calls |-> <<>>, args |-> [none |-> TRUE]]
    /\ thrInit
    /\ loadInit
    /\ swapInit
    /\ runtime = DefaultRuntime
    /\ nativeFrames = 0

NextSwap ==
    \/ \E h \in HmdIds : SwapTextureSet_new(h)
    \/ \E s \in SwapIds : SwapTextureSet_advance(s)
    \/ \E s \in SwapIds : SwapTextureSet_current(s)
    \/ \E s \in SwapIds : Drop_SwapTextureSet(s)
    \/ \E h \in HmdIds : Session_Frame_new(h)
    \/ \E h \in HmdIds : Layer_new(h)
    \/ \E l \in SwapIds : Drop_Layer(l)
    \/ \E h \in HmdIds : Drop_Hmd(h)

SpecSwap == InitSwap /\ [][NextSwap]_vars

(***************************************************************************)
(* SpecLoad: ffi/dynamic_lib.rs and the function table of ffi/mod.rs.  One *)
(* UnsafeDynamicLibrary value at a time is opened, handed to               *)
(* FunctionTable::load or dropped, and the table dropped.                  *)
(***************************************************************************)

\* The symbols of function_table!, in the order of declaration.
DeclaredSymbols ==
    <<"ovr_Detect", "ovr_Initialize", "ovr_Shutdown", "ovr_Create", "ovr_Destroy",
      "ovr_GetHmdDesc", "ovr_ConfigureTracking", "ovr_RecenterPose",
      "ovr_GetFovTextureSize", "ovr_GetRenderDesc", "ovr_CreateMirrorTextureGL",
      "ovr_DestroyMirrorTexture", "ovr_CreateSwapTextureSetGL",
      "ovr_DestroySwapTextureSet", "ovr_GetPredictedDisplayTime",
      "ovr_GetTrackingState", "ovr_CalcEyePoses", "ovr_SubmitFrame",
      "ovrMatrix4f_Projection">>

SymbolNames == {DeclaredSymbols[i] : i \in DOMAIN DeclaredSymbols}

\* The sets of at most k symbols: what a library may lack.
RECURSIVE MissingSets(_)
MissingSets(k) ==
    IF k = 0 THEN {{}}
    ELSE LET smaller == MissingSets(k - 1) IN
         smaller \cup {m \cup {x} : m \in smaller, x \in SymbolNames}

UnsafeDynamicLibrary_open_Always(openErr) ==
    [result |-> IF openErr THEN "Err" ELSE "Ok", wrapper |-> TRUE,
     calls |-> <<Call("dlopen", IF openErr THEN 0 ELSE 1)>>]

\* dynamic_lib.rs UnsafeDynamicLibrary::open: no wrapper is constructed when
\* the platform open reports an error.
UnsafeDynamicLibrary_open(openErr) ==
    [result |-> IF openErr THEN "Err" ELSE "Ok", wrapper |-> ~openErr,
     calls |-> <<Call("dlopen", IF openErr THEN 0 ELSE 1)>>]

\* dynamic_lib.rs Drop for UnsafeDynamicLibrary: close, and panic when the
\* platform reports an error for it.
UnsafeDynamicLibrary_drop(closeErr) ==
    [panic |-> closeErr, calls |-> <<Call("dlclose", IF closeErr THEN -1 ELSE 0)>>]

\* dynamic_lib.rs UnsafeDynamicLibrary::symbol, as recorded.
Symbol(name, found) == [fn |-> "dlsym", ret |-> IF found THEN 1 ELSE 0, symbol |-> name]

\* The lookups of the fields of FunctionTablePtrs from the i-th on: try!
\* returns at the first one that fails.
RECURSIVE lookups(_, _)
lookups(i, missing) ==
    IF i > Len(DeclaredSymbols) THEN <<>>
    ELSE IF DeclaredSymbols[i] \in missing THEN <<Symbol(DeclaredSymbols[i], FALSE)>>
    ELSE <<Symbol(DeclaredSymbols[i], TRUE)>> \o lookups(i + 1, missing)

FunctionTable_load_SkipMissing(missing, closeErr) ==
    LET tried == lookups(1, {})
        failed == missing # {}
        dropped == UnsafeDynamicLibrary_drop(closeErr)
    IN  IF ~failed
        THEN [result |-> "Ok", error |-> "none", table |-> TRUE, panic |-> FALSE,
              calls |-> tried]
        ELSE [result |-> IF dropped.panic THEN "panic" ELSE "Err",
              error |-> CHOOSE x \in missing : TRUE,
              table |-> FALSE, panic |-> dropped.panic, calls |-> tried \o dropped.calls]

\* ffi/mod.rs FunctionTable::load(lib): the table owns lib when every symbol
\* resolved; otherwise the error of the failing lookup (`error`) is returned
\* and lib, owned by the call, is dropped on the way out.
FunctionTable_load(missing, closeErr) ==
    LET tried == lookups(1, missing)
        failed == tried[Len(tried)].ret = 0
        dropped == UnsafeDynamicLibrary_drop(closeErr)
    IN  IF ~failed
        THEN [result |-> "Ok", error |-> "none", table |-> TRUE, panic |-> FALSE,
              calls |-> tried]
        ELSE [result |-> IF dropped.panic THEN "panic" ELSE "Err",
              error |-> tried[Len(tried)].symbol,
              table |-> FALSE, panic |-> dropped.panic, calls |-> tried \o dropped.calls]

\* A handler of SpecLoad has run: its native calls take effect.
Loaded(op, result, calls, panic, value, args) ==
    /\ lib' = value
    /\ opens' = opens + Cardinality({i \in DOMAIN calls :
                                       calls[i].fn = "dlopen" /\ calls[i].ret = 1})
    /\ closeCalls' = closeCalls + CountCalls(calls, "dlclose")
    /\ libsOpen' = LibsAfter(libsOpen, calls)
    /\ mode' = IF panic THEN Panic(mode) ELSE mode
    /\ last' = [op |-> op, result |-> result, calls |-> calls,
                args |-> args @@ [libBefore |-> lib, closeCallsBefore |-> closeCalls,
                                  modeBefore |-> mode]]
    /\ UNCHANGED <<ACTIVE_CONTEXT, initsSinceShutdown, nativeSessions, context, strong,
                   builders, hmds, rcs, frames, thrVars, swapVars, envvar, runtime,
                   nativeFrames>>

Library_open ==
    /\ mode = "running"
    /\ lib = "none"
    /\ opens < MaxOpens
    /\ \E openErr \in BOOLEAN :
         LET n == UnsafeDynamicLibrary_open(openErr) IN
         Loaded("UnsafeDynamicLibrary_open", n.result, n.calls, FALSE,
                IF n.wrapper THEN "wrapper" ELSE "none", [openErr |-> openErr])

Library_load ==
    /\ mode = "running"
    /\ lib = "wrapper"
    /\ \E missing \in MissingSets(MaxMissing), closeErr \in BOOLEAN :
         LET n == FunctionTable_load(missing, closeErr) IN
         \* an answer the handler never asks for is not an input
         /\ "dlclose" \notin CallNames(n.calls) => ~closeErr
         /\ Loaded("FunctionTable_load", n.result, n.calls, n.panic,
                   IF n.table THEN "table" ELSE "none",
                   [missing |-> missing, closeErr |-> closeErr, error |-> n.error])

\* The UnsafeDynamicLibrary value is dropped without having been handed on.
Drop_UnsafeDynamicLibrary ==
    /\ mode \in {"running", "unwinding"}
    /\ lib = "wrapper"
    /\ \E closeErr \in BOOLEAN :
         LET d == UnsafeDynamicLibrary_drop(closeErr) IN
         Loaded("Drop_UnsafeDynamicLibrary", "none", d.calls, d.panic, "none",
                [closeErr |-> closeErr])

\* The FunctionTable value is dropped: its lib field is dropped.
Drop_FunctionTable ==
    /\ mode \in {"running", "unwinding"}
    /\ lib = "table"
    /\ \E closeErr \in BOOLEAN :
         LET d == UnsafeDynamicLibrary_drop(closeErr) IN
         Loaded("Drop_FunctionTable", "none", d.calls, d.panic, "none",
                [closeErr |-> closeErr])

NextLoad ==
    \/ Library_open
    \/ Library_load
    \/ Drop_UnsafeDynamicLibrary
    \/ Drop_FunctionTable

SpecLoad == Init /\ [][NextLoad]_vars

(***************************************************************************)
(* SpecPath: dynamic_lib.rs prepend_search_path, create_path and            *)
(* search_path on the process's search path variable.  A string is a       *)
(* sequence of characters.                                                 *)
(***************************************************************************)
\* dynamic_lib.rs separator(), on a platform that is not Windows.
separator == ":"

\* The characters a path is written with: a letter and the separator.
Chars == {"a", separator}

Strings(n) == UNION {[1..k -> Chars] : k \in 0..n}

\* std::env::split_paths on this platform: the pieces between separators,
\* empty pieces included; a string with no separator, the empty one too, is
\* one piece.
RECURSIVE split_paths(_)
split_paths(unparsed) ==
    IF \A i \in DOMAIN unparsed : unparsed[i] # separator
    THEN <<unparsed>>
    ELSE LET i == CHOOSE k \in DOMAIN unparsed :
                      /\ unparsed[k] = separator
                      /\ \A j \in 1..(k - 1) : unparsed[j] # separator
         IN  <<SubSeq(unparsed, 1, i - 1)>>
                 \o split_paths(SubSeq(unparsed, i + 1, Len(unparsed)))

\* dynamic_lib.rs create_path, the loop from entry i on with newvar so far.
RECURSIVE create_path_from(_, _, _)
create_path_from(path, i, newvar) ==
    IF i > Len(path) THEN newvar
    ELSE create_path_from(path, i + 1,
                          (IF i > 1 THEN newvar \o <<separator>> ELSE newvar) \o path[i])

\* dynamic_lib.rs create_path.
create_path(path) == create_path_from(path, 1, <<>>)

\* dynamic_lib.rs search_path, for a value of the variable.
search_path(var) == IF var.set THEN split_paths(var.value) ELSE <<>>

insert_Push(v, element) == Append(v, element)

\* Vec::insert(0, element).
insert_0(v, element) == <<element>> \o v

\* dynamic_lib.rs prepend_search_path: the value it sets the variable to.
prepend_search_path(var, path) ==
    [set |-> TRUE, value |-> create_path(insert_0(search_path(var), path))]

\* The contiguous slices of a vector, the empty one included.
Slices(v) == {<<>>} \cup {SubSeq(v, i, j) : i \in DOMAIN v, j \in DOMAIN v}

UnsafeDynamicLibrary_prepend_search_path ==
    /\ mode = "running"
    /\ \E path \in Strings(MaxPathLen) :
         LET set == prepend_search_path(envvar, path) IN
         /\ Len(set.value) <= MaxVarLen
         /\ envvar' = set
         /\ last' = [op |-> "prepend_search_path", result |-> "none", calls |-> <<>>,
                     args |-> [path |-> path, before |-> search_path(envvar),
                               after |-> search_path(set)]]
    /\ UNCHANGED <<shared, mode, context, strong, builders, hmds, rcs, frames, thrVars,
                   swapVars, lib, opens, closeCalls, runtime, nativeFrames>>

\* create_path is given a slice of the current search path.
UnsafeDynamicLibrary_create_path ==
    /\ mode = "running"
    /\ \E path \in Slices(search_path(envvar)) :
         last' = [op |-> "create_path", result |-> "none", calls |-> <<>>,
                  args |-> [path |-> path, newvar |-> create_path(path),
                            split |-> split_paths(create_path(path))]]
    /\ UNCHANGED <<shared, mode, context, strong, builders, hmds, rcs, frames, thrVars,
                   swapVars, loadVars, runtime, nativeFrames>>

\* The process starts with the variable unset or set to some string.
InitPath ==
    /\ sharedInit /\ seqInit /\ thrInit /\ swapInit
    /\ lib = "none"
    /\ opens = 0
    /\ closeCalls = 0
    /\ envvar \in {NoVar} \cup {[set |-> TRUE, value |-> v] : v \in Strings(MaxPathLen)}
    /\ runtime = DefaultRuntime
    /\ nativeFrames = 0

NextPath ==
    \/ UnsafeDynamicLibrary_prepend_search_path
    \/ UnsafeDynamicLibrary_create_path

SpecPath == InitPath /\ [][NextPath]_vars

(***************************************************************************)
(* SpecMonitor: target.rs, the comparison of an HmdDisplayId with the      *)
(* windowing toolkit's NativeMonitorId and find_glutin_monitor.            *)
(***************************************************************************)
\* An identifier of either type: its variant and the variant's payload.
Id_Numeric(n) == [variant |-> "Numeric", num |-> n, name |-> ""]

Id_Name(s) == [variant |-> "Name", num |-> 0, name |-> s]

Id_Unavailable == [variant |-> "Unavailable", num |-> 0, name |-> ""]

\* The identifiers of a display or a monitor.
Ids ==
    {Id_Numeric(n) : n \in 1..MaxDisplayNumber} \cup {Id_Name(s) : s \in {"a", "b"}}
        \cup {Id_Unavailable}

HmdDisplayId_eq_SameVariant(self, other) ==
    CASE self.variant = "Numeric" /\ other.variant = "Numeric" -> self.num = other.num
      [] self.variant = "Name" /\ other.variant = "Name" -> self.name = other.name
      [] OTHER -> self.variant = other.variant

\* target.rs, impl PartialEq<glutin::NativeMonitorId> for HmdDisplayId.
HmdDisplayId_eq(self, other) ==
    CASE self.variant = "Numeric" /\ other.variant = "Numeric" -> self.num = other.num
      [] self.variant = "Name" /\ other.variant = "Name" -> self.name = other.name
      [] OTHER -> FALSE

\* target.rs, impl PartialEq<HmdDisplayId> for glutin::NativeMonitorId.
NativeMonitorId_eq(self, other) == HmdDisplayId_eq(other, self)

\* target.rs find_glutin_monitor, the loop from monitor i on: the index of
\* the monitor returned, 0 for None.
RECURSIVE find_glutin_monitor_from(_, _, _)
find_glutin_monitor_from(available_monitors, display_id, i) ==
    IF i > Len(available_monitors) THEN 0
    ELSE IF NativeMonitorId_eq(available_monitors[i], display_id) THEN i
    ELSE find_glutin_monitor_from(available_monitors, display_id, i + 1)

find_glutin_monitor(available_monitors, display_id) ==
    find_glutin_monitor_from(available_monitors, display_id, 1)

\* What glutin::get_available_monitors can enumerate: the native identifier
\* of each monitor, in order.
MonitorLists == UNION {[1..k -> Ids] : k \in 0..MaxMonitors}

Compare_HmdDisplayId ==
    /\ mode = "running"
    /\ \E self \in Ids, other \in Ids :
         last' = [op |-> "HmdDisplayId_eq", result |-> HmdDisplayId_eq(self, other),
                  calls |-> <<>>, args |-> [display |-> self, monitor |-> other]]
    /\ UNCHANGED <<shared, mode, context, strong, builders, hmds, rcs, frames, thrVars,
                   swapVars, loadVars, runtime, nativeFrames>>

Compare_NativeMonitorId ==
    /\ mode = "running"
    /\ \E self \in Ids, other \in Ids :
         last' = [op |-> "NativeMonitorId_eq", result |-> NativeMonitorId_eq(self, other),
                  calls |-> <<>>, args |-> [display |-> other, monitor |-> self]]
    /\ UNCHANGED <<shared, mode, context, strong, builders, hmds, rcs, frames, thrVars,
                   swapVars, loadVars, runtime, nativeFrames>>

Find_glutin_monitor ==
    /\ mode = "running"
    /\ \E available_monitors \in MonitorLists, display_id \in Ids :
         last' = [op |-> "find_glutin_monitor",
                  result |-> find_glutin_monitor(available_monitors, display_id),
                  calls |-> <<>>,
                  args |-> [display |-> display_id, monitors |-> available_monitors]]
    /\ UNCHANGED <<shared, mode, context, strong, builders, hmds, rcs, frames, thrVars,
                   swapVars, loadVars, runtime, nativeFrames>>

NextMonitor ==
    \/ Compare_HmdDisplayId
    \/ Compare_NativeMonitorId
    \/ Find_glutin_monitor

SpecMonitor == Init /\ [][NextMonitor]_vars

(***************************************************************************)
(* SpecLayout: the #[repr(C)] layout of ffi::ovrGLTexture, as the values   *)
(* shim::TextureBinding::new builds are laid out in memory.  A type is its *)
(* size and alignment in bytes.                                            *)
(***************************************************************************)
u32 == [size |-> 4, align |-> 4]

i32 == [size |-> 4, align |-> 4]

u64 == [size |-> 8, align |-> 8]

\* usize on a target of the given pointer width in bits.
usize(target_pointer_width) ==
    [size |-> target_pointer_width \div 8, align |-> target_pointer_width \div 8]

\* [t; n]
Array(t, n) == [size |-> t.size * n, align |-> t.align]

AlignUp(n, a) == ((n + a - 1) \div a) * a

\* The C rule for field i of a struct: it starts at the first multiple of its
\* alignment at or after the end of field i - 1.
RECURSIVE offset_of(_, _)
offset_of(fields, i) ==
    IF i = 1 THEN 0
    ELSE AlignUp(offset_of(fields, i - 1) + fields[i - 1].size, fields[i].align)

RECURSIVE max_align(_)
max_align(fields) ==
    IF fields = <<>> THEN 1
    ELSE LET rest == max_align(Tail(fields))
         IN  IF fields[1].align > rest THEN fields[1].align ELSE rest

\* #[repr(C)] struct: the struct's alignment is its largest field alignment
\* and its size is the end of the last field rounded up to it.
repr_C(fields) ==
    LET n == Len(fields)
    IN  [size |-> AlignUp(offset_of(fields, n) + fields[n].size, max_align(fields)),
         align |-> max_align(fields)]

\* ffi/mod.rs ovrSizei { w: i32, h: i32 }.
ovrSizei_layout == repr_C(<<i32, i32>>)

\* ffi/mod.rs ovrVector2i { x: i32, y: i32 }.
ovrVector2i_layout == repr_C(<<i32, i32>>)

\* ffi/mod.rs ovrRecti { Pos: ovrVector2i, Size: ovrSizei }.
ovrRecti_layout == repr_C(<<ovrVector2i_layout, ovrSizei_layout>>)

\* ffi/mod.rs ovrTextureHeader { API: ovrRenderAPIType, TextureSize: ovrSizei }.
ovrTextureHeader_layout == repr_C(<<u32, ovrSizei_layout>>)

\* ffi/mod.rs ovrGLTexture: Header, TexId, _PAD1_ on a 64-bit target only,
\* _PAD2_.
ovrGLTexture_names(target_pointer_width) ==
    <<"Header", "TexId">>
        \o (IF target_pointer_width = 64 THEN <<"_PAD1_">> ELSE <<>>)
        \o <<"_PAD2_">>

ovrGLTexture_fields(target_pointer_width) ==
    <<ovrTextureHeader_layout, u32>>
        \o (IF target_pointer_width = 64 THEN <<u64>> ELSE <<>>)
        \o <<Array(usize(target_pointer_width), 7)>>

\* The native ovrTexture as the comment above ovrGLTexture describes it: API,
\* TextureSize and RenderViewport in its header, then eight pointer-sized
\* slots of platform data.
ovrTexture_native(target_pointer_width) ==
    repr_C(<<repr_C(<<u32, ovrSizei_layout, ovrRecti_layout>>), Array(usize(target_pointer_width), 8)>>)

TargetPointerWidths == {32, 64}

\* shim.rs TextureBinding::new, texture_struct: one ovrGLTexture value for a
\* texture of the given size and name, with where the declared struct puts
\* its fields on the target.
TextureBinding_texture_struct ==
    /\ mode = "running"
    /\ \E target_pointer_width \in TargetPointerWidths,
          w \in 1..MaxTextureSide, h \in 1..MaxTextureSide, id \in 1..MaxTexId :
         LET fields == ovrGLTexture_fields(target_pointer_width)
             names == ovrGLTexture_names(target_pointer_width)
         IN  last' = [op |-> "texture_struct",
                      result |-> texture_struct(ovrSizei(w, h), id),
                      calls |-> <<>>,
                      args |-> [target_pointer_width |-> target_pointer_width,
                                offsets |-> [i \in DOMAIN names |->
                                                [name |-> names[i],
                                                 offset |-> offset_of(fields, i),
                                                 size |-> fields[i].size]],
                                size |-> repr_C(fields).size,
                                native |-> ovrTexture_native(target_pointer_width).size]]
    /\ UNCHANGED <<shared, mode, context, strong, builders, hmds, rcs, frames, thrVars,
                   swapVars, loadVars, runtime, nativeFrames>>

NextLayout == TextureBinding_texture_struct

SpecLayout == Init /\ [][NextLayout]_vars

(***************************************************************************)
(* Claims checked under Spec.                                              *)
(***************************************************************************)

\* C1: a Context::new made while a created Context is still alive returns
\* DuplicateContext; once that Context has been dropped with its last
\* reference, a Context::new for which the library loads and ovr_Initialize
\* answers a success code returns Ok.
C1_SecondFailsThenSucceedsAfterDrop ==
    last.op = "Context_new" =>
        /\ last.args.held => last.result = "DuplicateContext"
        /\ (~last.args.held /\ last.args.before = "dropped"
              /\ last.args.loads /\ last.args.initRet \in SuccessCodes)
             => last.result = "Ok"

\* C2: ACTIVE_CONTEXT is true only while a Context instance exists, also
\* after Context::new calls that failed.
C2_FlagOnlyWhileContextExists == ACTIVE_CONTEXT => strong > 0

\* The holders of the Rc<shim::Context>.
Holders ==
    (IF context = "alive" THEN 1 ELSE 0) + Cardinality(Alive(builders))
      + Cardinality(Alive(hmds))

\* C5: the shim Context is counted by the Context value and by every builder
\* and Hmd; ovr_Shutdown is invoked only by the drop of the last holder, after
\* the ovr_Destroy of every Hmd, and Context::new returns DuplicateContext
\* while an Hmd is alive, also when the Context value is gone.
C5_ShutdownOnlyAfterLastHolder ==
    /\ strong = Holders
    /\ Alive(hmds) # {} => initsSinceShutdown = 1 /\ libsOpen = 1
    /\ "ovr_Shutdown" \in CallNames(last.calls) =>
          /\ last.op \in {"Drop_Context", "Drop_HmdBuilder", "Drop_Hmd"}
          /\ last.args.strong = 1
          /\ Holders = 0
          /\ CountCalls(last.calls, "ovr_Shutdown") = 1
          /\ last.op = "Drop_Hmd" => Precedes(last.calls, "ovr_Destroy", "ovr_Shutdown")
    /\ (last.op = "Context_new" /\ Alive(hmds) # {}) => last.result = "DuplicateContext"

\* C5 witness: the Context value was dropped first, and the drop of the last
\* Hmd destroyed its session and then shut the runtime down.
C5_Witness ==
    /\ last.op = "Drop_Hmd"
    /\ context = "dropped"
    /\ Precedes(last.calls, "ovr_Destroy", "ovr_Shutdown")

\* C6: Session::new with require_headset = true, when ovr_Detect reports no
\* connected HMD, returns the no-headset error, calls neither ovr_Create nor
\* ovr_Destroy and leaves the native session handles as they were.
C6_NoHeadsetCreatesNothing ==
    (last.op = "HmdBuilder_build" /\ last.args.require_headset
       /\ last.args.detect = ovrFalse) =>
        /\ last.result = "NoHeadset"
        /\ "ovr_Create" \notin CallNames(last.calls)
        /\ "ovr_Destroy" \notin CallNames(last.calls)
        /\ nativeSessions = last.args.sessionsBefore
        /\ hmds = last.args.hmdsBefore

\* C6 witness: such a call was made.
C6_Witness ==
    /\ last.op = "HmdBuilder_build"
    /\ last.args.require_headset
    /\ last.args.detect = ovrFalse
    /\ last.result = "NoHeadset"

\* C7: build() on a builder with allow_debug() set, on a system with no
\* headset attached, creates the Hmd whenever the native calls it makes
\* succeed: it does not require a physical headset.
C7_AllowDebugNeedsNoHeadset ==
    (last.op = "HmdBuilder_build" /\ last.args.allow_debug
       /\ last.args.detect = ovrFalse
       /\ last.args.createRet \in SuccessCodes
       /\ last.args.trackRet \in SuccessCodes) =>
        last.result = "Ok"

\* C8: when the native ovr_Create reports failure, Session::new returns
\* SdkError, no Session is constructed and ovr_Destroy is not invoked.
C8_CreateFailureBuildsNothing ==
    (last.op = "HmdBuilder_build"
       /\ \E i \in DOMAIN last.calls :
            last.calls[i].fn = "ovr_Create" /\ last.calls[i].ret \notin SuccessCodes) =>
        /\ last.result = "SdkError"
        /\ ~last.args.session
        /\ "ovr_Destroy" \notin CallNames(last.calls)
        /\ hmds = last.args.hmdsBefore
        /\ nativeSessions = last.args.sessionsBefore

\* C8 witness: ovr_Create reported failure.
C8_Witness ==
    /\ last.op = "HmdBuilder_build"
    /\ \E i \in DOMAIN last.calls :
         last.calls[i].fn = "ovr_Create" /\ last.calls[i].ret \notin SuccessCodes
    /\ last.result = "SdkError"

\* The ovrHmd_ConfigureTracking calls among calls.
TrackingCalls(calls) ==
    {i \in DOMAIN calls : calls[i].fn = "ovrHmd_ConfigureTracking"}

\* C20: build() on a builder with no tracking option enabled makes no native
\* configure-tracking call and returns Ok whenever the session was created
\* (Session::new returned Ok); with a non-empty set and the session created it
\* makes exactly one configure-tracking call, and a failure code from that
\* call makes build() return Err(SdkError).
C20_EmptyTrackingIsNoCall ==
    last.op = "HmdBuilder_build" =>
        /\ last.args.track_caps = {} =>
             /\ TrackingCalls(last.calls) = {}
             /\ last.args.session => last.result = "Ok"
        /\ (last.args.track_caps # {} /\ last.args.session) =>
             /\ Cardinality(TrackingCalls(last.calls)) = 1
             /\ last.args.trackRet \notin SuccessCodes => last.result = "SdkError"

\* C20 witness: a build with no tracking option enabled created the session
\* and the Hmd without a configure-tracking call.
C20_Witness ==
    /\ last.op = "HmdBuilder_build"
    /\ last.args.track_caps = {}
    /\ last.args.session
    /\ last.result = "Ok"
    /\ TrackingCalls(last.calls) = {}

\* The other case of C20 happens too: a build with a non-empty tracking set
\* whose one configure-tracking call failed.
C20_TrackingFailed ==
    /\ last.op = "HmdBuilder_build"
    /\ last.args.track_caps # {}
    /\ last.args.session
    /\ Cardinality(TrackingCalls(last.calls)) = 1
    /\ last.args.trackRet \notin SuccessCodes
    /\ last.result = "SdkError"

\* The native calls of Context::new, Session::new and configure_tracking that
\* return an ovrResult and are made under ovr_invoke!.
StatusCalls == {"ovr_Initialize", "ovr_Create", "ovrHmd_ConfigureTracking"}

\* C21: a native status result is converted to an error exactly when it is a
\* failure code: Context::new and build() (Session::new, configure_tracking)
\* return SdkError if and only if one of their status calls returned a code
\* that is not a success code, so they do not fail on ovrSuccess (0) or on a
\* positive ovrSuccess_* code.
C21_ErrorExactlyOnFailureCode ==
    last.op \in {"Context_new", "HmdBuilder_build"} =>
        (last.result = "SdkError" <=>
            \E i \in DOMAIN last.calls :
                /\ last.calls[i].fn \in StatusCalls
                /\ last.calls[i].ret \notin SuccessCodes)

\* C22: Session::new with require_headset = false never calls ovr_Detect and
\* returns a Session whenever ovr_Create returned a success code; with
\* require_headset = true it calls ovr_Detect exactly once, before any
\* ovr_Create.
C22_ProbeOnlyWhenRequired ==
    last.op = "HmdBuilder_build" =>
        /\ ~last.args.require_headset =>
             /\ "ovr_Detect" \notin CallNames(last.calls)
             /\ last.args.createRet \in SuccessCodes => last.args.session
        /\ last.args.require_headset =>
             /\ CountCalls(last.calls, "ovr_Detect") = 1
             /\ "ovr_Create" \in CallNames(last.calls) =>
                  Precedes(last.calls, "ovr_Detect", "ovr_Create")

\* The native calls made under ovr_invoke! by Context::new, Session::new,
\* configure_tracking, SwapTextureSet::new and RenderContext::new.
InvokedCalls ==
    StatusCalls \cup {"ovr_CreateSwapTextureSetGL", "ovrHmd_ConfigureRendering",
                      "ovrHmd_AttachToWindow"}

\* What runs after the failing call when the error leaves the operation: the
\* values the operation's caller owned are dropped, which closes the library
\* in Context::new and destroys the session in Hmd::new when
\* configure_tracking failed.
DropsOnError(fn) ==
    IF fn = "ovr_Initialize" THEN {"dlclose"}
    ELSE IF fn = "ovrHmd_ConfigureTracking" THEN {"ovr_Destroy"}
    ELSE {}

HmdsBuiltNotReached == ~(\E n \in HmdIds : HmdsBuilt(n))


\* The operations that return the error of a failed ovr_invoke! to the caller.
InvokingOps == {"Context_new", "HmdBuilder_build", "Hmd_init_render", "SwapTextureSet_new"}

\* C28: the message of an SdkError identifies the native call that failed:
\* the failure of any other native operation yields an SdkError with a
\* different message.
C28_MessageNamesTheCall ==
    (last.op \in InvokingOps /\ last.result = "SdkError")
        => /\ last.args.error.call \in InvokedCalls
           /\ last.calls # <<>>
           /\ \E i \in 1..Len(last.calls) :
                  /\ last.calls[i].fn = last.args.error.call
                  /\ ovrFailure(last.calls[i].ret)
           /\ \A g \in InvokedCalls \ {last.args.error.call} :
                  SdkError(g).message # last.args.error.message


\* C33: a Context::new that fails after the library was loaded makes no
\* ovr_Shutdown call and closes the library once, as the last thing it does;
\* ovr_Shutdown is invoked only by the release of the last Rc of a Context,
\* and a Context comes to exist only in a Context::new whose ovr_Initialize
\* the binding took for a success.
C33_State ==
    /\ (last.op = "Context_new" /\ last.result # "Ok" /\ Precedes(last.calls, "dlopen", "dlclose"))
           => /\ "ovr_Shutdown" \notin CallNames(last.calls)
              /\ CountCalls(last.calls, "dlclose") = 1
              /\ last.calls[Len(last.calls)].fn = "dlclose"
              /\ libsOpen = 0
              /\ strong = 0
    /\ last.op = "Context_new" => "ovr_Shutdown" \notin CallNames(last.calls)
    /\ strong > 0 => (initsSinceShutdown = 1 /\ libsOpen = 1)

C33_Step ==
    /\ (strong = 0 /\ strong' > 0)
           => /\ last'.op = "Context_new"
              /\ last'.result = "Ok"
              /\ \E i \in DOMAIN last'.calls :
                     /\ last'.calls[i].fn = "ovr_Initialize"
                     /\ ~ovrFailure(last'.calls[i].ret)
                     /\ last'.calls[i].ret \in SuccessCodes
    /\ "ovr_Shutdown" \in CallNames(last'.calls)
           => /\ strong > 0
              /\ strong' = 0
              /\ CountCalls(last'.calls, "ovr_Shutdown") = 1

C33_FailedNewNeverShutsDown == []C33_State /\ [][C33_Step]_vars

\* C33 witness: Context::new has failed on ovr_Initialize with the library
\* loaded, after an earlier Context was created and shut down.
C33_Witness ==
    /\ last.op = "Context_new"
    /\ last.result = "SdkError"
    /\ last.args.initRet = -1
    /\ last.args.before = "dropped"
    /\ CountCalls(last.calls, "dlclose") = 1

(***************************************************************************)
(* Claims checked under SpecThreads.                                       *)
(***************************************************************************)

\* Thread t is past the compare-and-swap of a Context::new, or owns the
\* Context that call made, until its destructor has run.
PastCas(t) == pc[t] \in {"load", "symbols", "init", "live", "drop2"}

C3_State ==
    /\ Cardinality({t \in Threads : PastCas(t)}) <= 1
    /\ Cardinality({t \in Threads : holds[t]}) <= 1
    /\ initsSinceShutdown <= 1

C3_Step ==
    \A t \in Threads :
        (pc[t] = "idle" /\ \E u \in Threads \ {t} : PastCas(u)) =>
            /\ pc'[t] = "idle"
            /\ ret'[t] \in {ret[t], "DuplicateContext"}

\* C3: of the threads calling Context::new at most one is past the
\* compare-and-swap at any time and every call made meanwhile returns
\* DuplicateContext; two Contexts never exist together, and ovr_Initialize is
\* not invoked twice without an ovr_Shutdown in between.
C3_OneContextUnderRaces == []C3_State /\ [][C3_Step]_vars

\* C3 witness: a call returned DuplicateContext while another thread's call
\* was between its compare-and-swap and the construction of the Context.
C3_Witness ==
    \E t, u \in Threads :
        /\ t # u
        /\ pc[t] \in {"load", "symbols", "init"}
        /\ pc[u] = "idle"
        /\ ret[u] = "DuplicateContext"

C4_State ==
    \A t \in Threads :
        /\ pc[t] = "live" => shutdowns[t] = 0 /\ ACTIVE_CONTEXT
        /\ pc[t] = "drop2" => shutdowns[t] = 1 /\ ACTIVE_CONTEXT
        /\ (pc[t] = "idle" /\ ret[t] = "Ok") => shutdowns[t] = 1 /\ ~holds[t]

C4_Step ==
    /\ (ACTIVE_CONTEXT /\ ~ACTIVE_CONTEXT') =>
          \E t \in Threads : pc[t] = "drop2" /\ shutdowns[t] = 1 /\ pc'[t] = "idle"
    /\ \A t \in Threads :
          (holds[t] /\ ~holds'[t]) =>
              pc'[t] = IF ACTIVE_CONTEXT THEN "idle" ELSE "panicked"

\* C4: the destructor of a Context invokes ovr_Shutdown exactly once and
\* swaps ACTIVE_CONTEXT to false only after it; finding the flag already
\* false there, it panics instead of returning.
C4_ShutdownOnceThenSwap == []C4_State /\ [][C4_Step]_vars

\* C4 witness: a Context was destroyed.
C4_Witness ==
    \E t \in Threads :
        /\ pc[t] = "idle"
        /\ ret[t] = "Ok"
        /\ shutdowns[t] = 1
        /\ ~ACTIVE_CONTEXT


\* C34: the assert!(was_active) of the Context destructor holds under every
\* interleaving of Context::new calls, failed or not, and Context drops: the
\* flag is true from the moment a thread holds a Context until that thread's
\* destructor has swapped it, so no thread ever panics there.
C34_AssertHoldsWheneverDropped ==
    \A t \in Threads :
        /\ pc[t] # "panicked"
        /\ holds[t] => (ACTIVE_CONTEXT /\ pc[t] \in {"live", "drop2"})
        /\ pc[t] \in {"live", "drop2"} => holds[t]

\* C34 witness: one thread is inside the destructor of its Context, past
\* ovr_Shutdown and before the swap, while another thread's Context::new has
\* returned an error.
C34_Witness ==
    \E t, u \in Threads :
        /\ t # u
        /\ pc[t] = "drop2"
        /\ holds[t]
        /\ pc[u] = "idle"
        /\ ret[u] \in {"DuplicateContext", "OculusRuntimeError", "SdkError"}

(***************************************************************************)
(* Claims checked under SpecRender.                                        *)
(***************************************************************************)

C9_OnDrop ==
    /\ "ovr_Destroy" \in CallNames(last.calls) => last.op = "Drop_Hmd"
    /\ last.op = "Drop_Hmd" =>
          /\ CountCalls(last.calls, "ovr_Destroy") = 1
          /\ hmds[last.args.hmd].state = "none"
    /\ nativeSessions = Cardinality(Alive(hmds))
    /\ \A r \in RcIds : rcs[r].state = "alive" => hmds[rcs[r].hmd].state = "alive"

C10_AtMostOneOpenFrame ==
    \A r \in RcIds :
        Cardinality({f \in FrameIds : frames[f].state = "alive" /\ frames[f].rc = r}) <= 1

\* What C11 says of each Frame::new and each drop of a Frame.
C11_OnFrame ==
    /\ nativeFrames = Cardinality(Alive(frames))
    /\ "ovrHmd_BeginFrame" \in CallNames(last.calls) => last.op = "Frame_new"
    /\ last.op = "Frame_new" =>
          /\ [i \in DOMAIN last.calls |-> last.calls[i].fn]
                 = <<"ovrHmd_BeginFrame", "ovrHmd_GetEyePoses">>
          /\ last.args.offsets = [i \in EyeIndices |-> runtime.HmdToEyeViewOffset[i]]
          /\ last.args.offsets = rcs[last.args.rc].offsets
          /\ frames[last.args.frame].state = "alive"
          /\ frames[last.args.frame].rc = last.args.rc
    /\ "ovrHmd_EndFrame" \in CallNames(last.calls) => last.op = "Drop_Frame"
    /\ last.op = "Drop_Frame" =>
          /\ CountCalls(last.calls, "ovrHmd_EndFrame") = 1
          /\ frames[last.args.frame].state = "none"

\* C11 as claimed: Frame::new invokes begin-frame and then the eye-pose query
\* with the RenderContext's cached offsets, the drop of a Frame invokes
\* end-frame once, no end-frame comes without its begin-frame, and however the
\* program ends every begin-frame has had its end-frame.
C11_EveryBeginHasItsEnd ==
    /\ C11_OnFrame
    /\ mode \in {"exited", "aborted"} => nativeFrames = 0

\* C11 as amended: the same, for a program that ends by returning or by
\* unwinding; a process aborted by a panic raised during unwinding ends with
\* the Frames still open never ended.
C11_EveryBeginHasItsEndUnlessAborted ==
    /\ C11_OnFrame
    /\ mode = "exited" => nativeFrames = 0

\* C11 witness: a Frame was ended by its drop during unwinding, and no Frame
\* is left open.
C11_Witness ==
    /\ last.op = "Drop_Frame"
    /\ mode = "unwinding"
    /\ nativeFrames = 0

\* C12: native teardown is the reverse of construction: the end-frame of every
\* Frame precedes the configuration reversal of its RenderContext, which
\* precedes the ovr_Destroy of the Session it borrows, which precedes the
\* ovr_Shutdown of the Context; a Frame never outlives its RenderContext.
C12_TeardownInReverse ==
    /\ \A f \in FrameIds :
          frames[f].state = "alive" => rcs[frames[f].rc].state = "alive"
    /\ \A r \in RcIds :
          rcs[r].state = "alive" => hmds[rcs[r].hmd].state = "alive"
    /\ Alive(hmds) # {} => (strong > 0 /\ initsSinceShutdown = 1 /\ libsOpen = 1)
    /\ "ovrHmd_ConfigureRendering(null)" \in CallNames(last.calls) =>
          /\ last.op = "Drop_RenderContext"
          /\ \A f \in FrameIds : frames[f].state = "alive" => frames[f].rc # last.args.rc
          /\ hmds[last.args.hmd].state = "alive"
    /\ "ovr_Destroy" \in CallNames(last.calls) =>
          /\ \A r \in RcIds : rcs[r].state = "alive" => rcs[r].hmd # last.args.hmd
          /\ "ovr_Shutdown" \in CallNames(last.calls) =>
                Precedes(last.calls, "ovr_Destroy", "ovr_Shutdown")
    /\ "ovr_Shutdown" \in CallNames(last.calls) =>
          (Alive(hmds) = {} /\ Alive(rcs) = {} /\ Alive(frames) = {} /\ nativeSessions = 0
             /\ nativeFrames = 0)

\* C12 witness: the configuration of a RenderContext was reversed while a
\* Frame of another RenderContext was open and the Hmd it borrows alive.
C12_Witness ==
    /\ last.op = "Drop_RenderContext"
    /\ mode = "running"
    /\ Alive(frames) # {}
    /\ hmds[last.args.hmd].state = "alive"

\* C13: the drop of a RenderContext invokes configure-rendering with a null
\* configuration and empty distortion caps exactly once, and panics when that
\* call reports failure.
C13_ReversalOnceOrPanic ==
    last.op = "Drop_RenderContext" =>
        /\ [i \in DOMAIN last.calls |-> last.calls[i].fn]
               = <<"ovrHmd_ConfigureRendering(null)">>
        /\ last.args.config = "null"
        /\ last.args.caps = {}
        /\ rcs[last.args.rc].state = "none"
        /\ last.calls[1].ret \notin SuccessCodes =>
              mode = (IF last.args.mode = "running" THEN "unwinding" ELSE "aborted")

\* C13 witness: the reversal reported failure and the drop panicked.
C13_Witness ==
    /\ last.op = "Drop_RenderContext"
    /\ last.calls[1].ret \notin SuccessCodes
    /\ last.args.mode = "running"
    /\ mode = "unwinding"

ThroughTable(c) == c.fn \notin {"dlopen", "dlsym", "dlclose", "ACTIVE_CONTEXT.swap"}

\* Library handles open before the i-th call of the last handler.
LibsOpenAt(i) ==
    LET opened(n) == Cardinality({j \in 1..n : last.calls[j].fn = "dlopen"
                                                /\ last.calls[j].ret # 0})
        closed(n) == Cardinality({j \in 1..n : last.calls[j].fn = "dlclose"})
        before == libsOpen - opened(Len(last.calls)) + closed(Len(last.calls))
    IN  before + opened(i - 1) - closed(i - 1)

\* C23: in the destruction of the Context (the drop of its last holder) the
\* library is closed only after ovr_Shutdown has been called and returned,
\* and no native entry point is invoked through the table after the library
\* has been closed, whatever RenderContexts and Frames were created and
\* dropped.
C23_ClosedAfterShutdownNoCallAfter ==
    /\ last.op \in {"Drop_Context", "Drop_Hmd", "Drop_HmdBuilder"} =>
         \A i \in DOMAIN last.calls :
             last.calls[i].fn = "dlclose" =>
                 \E j \in 1..(i - 1) : last.calls[j].fn = "ovr_Shutdown"
    /\ \A i \in DOMAIN last.calls :
         ThroughTable(last.calls[i]) => LibsOpenAt(i) >= 1
    /\ libsOpen = 0 => (context # "alive" /\ Alive(hmds) = {} /\ Alive(rcs) = {}
                                          /\ Alive(frames) = {})

\* C23 witness: the drop of the last holder, an Hmd, shut the runtime down
\* and then closed the library.
C23_Witness ==
    /\ last.op = "Drop_Hmd"
    /\ Precedes(last.calls, "ovr_Shutdown", "dlclose")
    /\ libsOpen = 0
    /\ mode = "running"


\* C31: when RenderContext::new returns an error after a configure-rendering
\* call that the runtime carried out, the error's calls go on with a
\* configure-rendering with a null configuration, so that the runtime is not
\* left with rendering configured.
C31_FailedInitRenderLeavesNothingConfigured ==
    (last.op = "Hmd_init_render" /\ last.result # "Ok")
        => \A i \in DOMAIN last.calls :
               (last.calls[i].fn = "ovrHmd_ConfigureRendering"
                    /\ last.calls[i].ret \in SuccessCodes)
                   => \E j \in DOMAIN last.calls :
                          j > i /\ last.calls[j].fn = "ovrHmd_ConfigureRendering(null)"

(***************************************************************************)
(* Claims checked under SpecMetadata.                                      *)
(***************************************************************************)

C15_State ==
    last.op = "RenderContext_target_texture_size" =>
        LET sizes == rcs[last.args.rc].eye_texture_sizes IN
        /\ last.args.eye = "Left" => last.result = <<sizes[0].w, sizes[0].h>>
        /\ last.args.eye = "Right" => last.result = <<sizes[1].w, sizes[1].h>>

C15_Step ==
    \A r \in RcIds :
        (rcs[r].state = "alive" /\ rcs'[r].state = "alive") =>
            \A eye \in Eyes :
                target_texture_size(rcs'[r], eye) = target_texture_size(rcs[r], eye)

\* C15: target_texture_size(Left) and target_texture_size(Right) return the
\* same values on every call for the whole life of a RenderContext, whatever
\* Frame, create_binding, projection_matrix, dismiss_hsw or recenter_pose
\* operations happen in between; Left is cached index 0 and Right index 1.
C15_TextureSizeStable == []C15_State /\ [][C15_Step]_vars

\* C15 witness: the size of the right eye was returned from the cache after
\* the runtime had come to suggest another size.
C15_Witness ==
    /\ last.op = "RenderContext_target_texture_size"
    /\ last.args.eye = "Right"
    /\ rcs[last.args.rc].eye_texture_sizes[0] # rcs[last.args.rc].eye_texture_sizes[1]
    /\ runtime.TextureSize # rcs[last.args.rc].eye_texture_sizes
    /\ Alive(frames) # {}

\* C16: TextureBinding::new produces two descriptors, descriptor 0 for the
\* left pair and descriptor 1 for the right pair, each with TextureSize equal
\* to the input size, RenderViewport at (0,0) of the input size, and TexId
\* equal to the input id.
C16_BindingReproducesInputs ==
    last.op = "RenderContext_create_binding" =>
        LET size == rcs[last.args.rc].eye_texture_sizes
            id == [i \in EyeIndices |-> IF i = 0 THEN last.args.tex_id_left
                                        ELSE last.args.tex_id_right]
            textures == last.result.textures
        IN  /\ DOMAIN textures = EyeIndices
            /\ \A i \in EyeIndices :
                  /\ textures[i].TextureSize = size[i]
                  /\ textures[i].RenderViewport.Pos = [x |-> 0, y |-> 0]
                  /\ textures[i].RenderViewport.Size = size[i]
                  /\ textures[i].TexId = id[i]

\* C16 witness: a binding was made of two different sizes and two different
\* ids.
C16_Witness ==
    /\ last.op = "RenderContext_create_binding"
    /\ last.args.tex_id_left # last.args.tex_id_right
    /\ last.result.textures[0].TextureSize # last.result.textures[1].TextureSize

\* The RenderContext c with the cached fovs of its eyes exchanged.
FovsSwapped(c) == [c EXCEPT !.fovs = [i \in EyeIndices |-> c.fovs[1 - i]]]

\* C19: projection_matrix(eye, near_z, far_z) depends only on the fov cached
\* for that eye and on near_z and far_z: exchanging the cached fovs of the
\* eyes exchanges the two matrices, two eyes of equal fov obtain equal
\* matrices, and the other cached metadata does not matter.
C19_ProjectionDependsOnFovOnly ==
    /\ \A r \in RcIds, z \in ClipPlanes :
          rcs[r].state = "alive" =>
              LET c == rcs[r]
                  other == [c EXCEPT !.eye_texture_sizes = NoRenderContext.eye_texture_sizes,
                                     !.offsets = NoRenderContext.offsets]
              IN  /\ projection_matrix(FovsSwapped(c), "Left", z[1], z[2])
                        = projection_matrix(c, "Right", z[1], z[2])
                  /\ projection_matrix(FovsSwapped(c), "Right", z[1], z[2])
                        = projection_matrix(c, "Left", z[1], z[2])
                  /\ c.fovs[0] = c.fovs[1] =>
                        projection_matrix(c, "Left", z[1], z[2])
                          = projection_matrix(c, "Right", z[1], z[2])
                  /\ \A eye \in Eyes :
                        projection_matrix(other, eye, z[1], z[2])
                          = projection_matrix(c, eye, z[1], z[2])
    /\ last.op = "RenderContext_projection_matrix" =>
          LET fov == rcs[last.args.rc].fovs[IF last.args.eye = "Left" THEN 0 ELSE 1]
              native == ovrMatrix4f_Projection(fov, last.args.near_z, last.args.far_z,
                            {"ovrProjection_RightHanded", "ovrProjection_ClipRangeOpenGL"})
          IN  \A i, j \in 0..3 : last.result[i][j] = native.M[j][i]

\* C19 witness: the matrix of the right eye was asked of a RenderContext whose
\* eyes have different fovs.
C19_Witness ==
    /\ last.op = "RenderContext_projection_matrix"
    /\ last.args.eye = "Right"
    /\ rcs[last.args.rc].fovs[0] # rcs[last.args.rc].fovs[1]

\* C24: the poses and the textures passed to the native end-frame when a
\* Frame is dropped are the poses the eye-pose query answered in that Frame's
\* Frame::new and the textures of the binding given to it; eye_poses,
\* target_texture_size, projection_matrix and create_binding, and what the
\* runtime has come to answer since, leave them as they were.
C24_EndFrameGetsWhatFrameNewCaptured ==
    /\ \A f \in Alive(frames) :
          /\ frames[f].poses = frames[f].begun.poses
          /\ frames[f].textures = frames[f].begun.texture_binding
    /\ last.op = "Drop_Frame" =>
          /\ last.args.end_frame.poses = last.args.begun.poses
          /\ last.args.end_frame.textures = last.args.begun.texture_binding.textures

\* C24 witness: a Frame was dropped when the eye-pose query would no longer
\* answer what it answered in Frame::new.
C24_Witness ==
    /\ last.op = "Drop_Frame"
    /\ rcs[last.args.rc].state = "alive"
    /\ last.args.end_frame.poses
           # ovrHmd_GetEyePoses(runtime, rcs[last.args.rc].offsets)
    /\ last.args.end_frame.textures[0].TexId \in TexIds

\* C25: Frame::eye_poses yields one entry per element of the EyeRenderOrder
\* the runtime reports, in that order; the entry for the element i is
\* labelled Left when i = 0 and Right when i = 1 and carries the orientation
\* (w, [x, y, z]) and the position [x, y, z] of the pose captured at index i;
\* an element other than 0 and 1 makes the call panic.
C25_EyePosesFollowRenderOrder ==
    last.op = "Frame_eye_poses" =>
        LET order == last.args.order
            captured == frames[last.args.frame].begun.poses
        IN  IF \A k \in DOMAIN order : order[k] \in {0, 1}
            THEN /\ ~last.args.panic
                 /\ mode = last.args.mode
                 /\ Len(last.result) = Len(order)
                 /\ \A k \in DOMAIN order :
                       LET q == captured[order[k]].Orientation
                           p == captured[order[k]].Position
                       IN  /\ order[k] = 0 => last.result[k].eye = "Left"
                           /\ order[k] = 1 => last.result[k].eye = "Right"
                           /\ last.result[k].orientation = <<q.w, <<q.x, q.y, q.z>>>>
                           /\ last.result[k].position = <<p.x, p.y, p.z>>
            ELSE /\ last.args.panic
                 /\ mode = Panic(last.args.mode)

\* C25 witness: the render order put the right eye first and the entries
\* came Right, then Left, with different positions.
C25_Witness ==
    /\ last.op = "Frame_eye_poses"
    /\ last.args.order = <<1, 0>>
    /\ ~last.args.panic
    /\ last.result[1].eye = "Right"
    /\ last.result[2].eye = "Left"
    /\ last.result[1].position # last.result[2].position

\* The other case of C25 happens too: an element of the order was neither 0
\* nor 1 and the call panicked.
C25_TooManyEyes ==
    /\ last.op = "Frame_eye_poses"
    /\ last.args.order = <<0, 2>>
    /\ last.args.panic
    /\ mode = "unwinding"

\* C26: RenderContext::create_binding is pure data construction: it makes no
\* native call and leaves the RenderContext (cached sizes, fovs, offsets), the
\* Frames and all native state as they were; textures reach the native
\* runtime only with the end-frame call of a Frame's drop.
C26_State ==
    /\ last.op = "RenderContext_create_binding" => last.calls = <<>>
    /\ "ovrHmd_EndFrame" \in CallNames(last.calls) => last.op = "Drop_Frame"

C26_Step ==
    last'.op = "RenderContext_create_binding" =>
        /\ rcs' = rcs
        /\ frames' = frames
        /\ hmds' = hmds
        /\ UNCHANGED <<shared, runtime, nativeFrames, strong, context, mode>>

C26_CreateBindingIsPure == []C26_State /\ [][C26_Step]_vars

\* C26 witness: a binding was created while a Frame was open.
C26_Witness ==
    /\ last.op = "RenderContext_create_binding"
    /\ nativeFrames = 1
    /\ \E f \in Alive(frames) : frames[f].rc = last.args.rc
    /\ last.result.textures[0].TexId = last.args.tex_id_left

(***************************************************************************)
(* Claims checked under SpecBuilder.                                       *)
(***************************************************************************)

\* The caps of a builder on which the option methods of `called` were
\* called, whatever their order and number.
CapsAfter(called) ==
    ({"LowPersistence", "DynamicPrediction"}
        \cup (IF "no_mirror" \in called THEN {"NoMirrorToWindow"} ELSE {})
        \cup (IF "no_display" \in called THEN {"DisplayOff"} ELSE {})
        \cup (IF "direct_pentile" \in called THEN {"DirectPentile"} ELSE {})
        \cup (IF "no_vsync" \in called THEN {"NoVSync"} ELSE {}))
    \ ((IF "no_low_persistence" \in called THEN {"LowPersistence"} ELSE {})
        \cup (IF "no_dynamic_prediction" \in called THEN {"DynamicPrediction"} ELSE {}))

\* C35: a builder starts with caps {LowPersistence, DynamicPrediction}, no
\* tracking caps and allow_debug false; its caps and allow_debug depend only
\* on the set of option methods called on it (each is idempotent and they
\* commute); track() replaces the tracking caps; build() passes those caps,
\* leaves the builder as it was, and each build that succeeds adds one Hmd,
\* holding one more reference to the same context, next to those built
\* before.
C35_BuilderAlgebra ==
    /\ \A b \in Alive(builders) :
           /\ builders[b].caps = CapsAfter(builders[b].called)
           /\ builders[b].allow_debug = ("allow_debug" \in builders[b].called)
    /\ last.op = "Context_build_hmd"
           => builders[last.args.builder]
                  = [state |-> "alive", caps |-> {"LowPersistence", "DynamicPrediction"},
                     track_caps |-> {}, allow_debug |-> FALSE, called |-> {}]
    /\ last.op = "HmdBuilder_track"
           => builders[last.args.builder].track_caps = last.args.tracking_options
    /\ last.op = "HmdBuilder_build"
           => /\ builders = last.args.buildersBefore
              /\ last.args.caps = CapsAfter(builders[last.args.builder].called)
              /\ last.args.track_caps = builders[last.args.builder].track_caps
              /\ last.args.allow_debug = builders[last.args.builder].allow_debug
              /\ context = "alive"
              /\ last.result = "Ok"
                     => /\ last.args.hmdsBefore[last.args.hmd].state = "none"
                        /\ hmds[last.args.hmd].state = "alive"
                        /\ \A h \in HmdIds \ {last.args.hmd} : hmds[h] = last.args.hmdsBefore[h]
                        /\ strong = last.args.strongBefore + 1
              /\ last.result # "Ok"
                     => /\ hmds = last.args.hmdsBefore
                        /\ strong = last.args.strongBefore

\* C35 witness: a second Hmd was built from a builder on which options were
\* called, one of them removing a default cap, and whose tracking caps were
\* replaced.
C35_Witness ==
    /\ last.op = "HmdBuilder_build"
    /\ last.result = "Ok"
    /\ Cardinality(Alive(hmds)) = 2
    /\ {"no_low_persistence", "no_mirror", "no_vsync"} \subseteq builders[last.args.builder].called
    /\ last.args.caps = {"DynamicPrediction", "NoMirrorToWindow", "NoVSync"}
    /\ last.args.track_caps = {"Position"}

\* ffi/mod.rs: the flags declared for ovrHmdCaps (the two masks are zero)
\* and for ovrTrackingCaps.
ovrHmdCaps_flags == {"DebugDevice"}

ovrTrackingCaps_flags == {"Orientation", "MagYawCorrection", "Position", "Idle"}

\* The orders in which position, orientation and mag_yaw_correct can each be
\* called once.
EachOnce == {methods \in [1..3 -> TrackingOptionsMethods] :
                \A i, j \in 1..3 : methods[i] = methods[j] => i = j}

\* The tracking half of C36, which holds of every builder and every
\* TrackingOptions value.
TrackingCapsDefined ==
    /\ \A b \in Alive(builders) :
           /\ builders[b].track_caps \subseteq {"Orientation", "MagYawCorrection", "Position"}
           /\ builders[b].track_caps \subseteq ovrTrackingCaps_flags
    /\ \A v \in TrackingOptionsValues : v \subseteq {"Orientation", "MagYawCorrection", "Position"}
    /\ TrackingOptions_new = {}
    /\ \A methods \in EachOnce :
           TrackingOptions_calls(TrackingOptions_new, methods) = TrackingOptions_with_all

\* C36: capability sets built through the public API hold only declared
\* flags: the tracking caps of a builder and of every TrackingOptions value
\* are among Orientation, MagYawCorrection and Position, new() is empty,
\* with_all() is new() followed by the three methods in any order, and the
\* caps of a builder are among the flags declared for ovrHmdCaps.
C36_OnlyDefinedBits ==
    /\ TrackingCapsDefined
    /\ \A b \in Alive(builders) : builders[b].caps \subseteq ovrHmdCaps_flags

(***************************************************************************)
(* Claims checked under SpecSwap.                                          *)
(***************************************************************************)

\* C30: SwapTextureSet::advance moves CurrentIndex to
\* (CurrentIndex + 1) mod TextureCount: after any number of advances
\* 0 <= CurrentIndex < TextureCount, TextureCount advances in a row visit
\* every texture of the ring once and end at the index they started from,
\* and current() returns the id of the texture at CurrentIndex.
C30_AdvanceWalksTheRing ==
    /\ \A s \in Alive(swaps) :
          LET set == swaps[s].texture_set
              trail == swaps[s].trail
              n == set.TextureCount
          IN  /\ 0 <= set.CurrentIndex /\ set.CurrentIndex < n
              /\ trail[Len(trail)] = set.CurrentIndex
              /\ \A k \in 2..Len(trail) : trail[k] = (trail[k - 1] + 1) % n
              /\ Len(trail) = n + 1 =>
                    /\ trail[n + 1] = trail[1]
                    /\ {trail[k] : k \in 2..(n + 1)} = 0..(n - 1)
    /\ last.op = "SwapTextureSet_current" =>
          LET set == swaps[last.args.set].texture_set IN
          last.result = set.Textures[set.CurrentIndex].TexId

\* C30 witness: a set of more than one texture was advanced TextureCount
\* times or more and the last advance wrapped to index 0.
C30_Witness ==
    /\ last.op = "SwapTextureSet_advance"
    /\ swaps[last.args.set].texture_set.TextureCount > 1
    /\ Len(swaps[last.args.set].trail) = swaps[last.args.set].texture_set.TextureCount + 1
    /\ last.args.before.CurrentIndex = swaps[last.args.set].texture_set.TextureCount - 1
    /\ swaps[last.args.set].texture_set.CurrentIndex = 0

\* current() was read at an index other than 0.
C30_CurrentAfterAdvance ==
    /\ last.op = "SwapTextureSet_current"
    /\ swaps[last.args.set].texture_set.CurrentIndex = 1
    /\ last.result = TexIdBase(last.args.set) + 1

\* C29: a created Session holds the eye offsets of eye 0 and eye 1 that
\* Session::new derived from the native descriptor and render descriptors,
\* and a later frame computes its poses from those offsets.
C29_FramesUseTheCachedOffsets ==
    last.op = "Session_Frame_new"
        => /\ hmds[last.args.session].state = "alive"
           /\ hmds[last.args.session].eye_offsets = {Session_new_eye_offsets(runtime)}
           /\ last.args.offsets \in hmds[last.args.session].eye_offsets
           /\ last.args.poses
                  = ovr_CalcEyePoses(runtime.HeadPose, Session_new_eye_offsets(runtime))


\* The swap texture sets a handler's calls made the runtime create.
SetsCreated(calls) ==
    Cardinality({i \in DOMAIN calls : calls[i].fn = "ovr_CreateSwapTextureSetGL"
                                       /\ calls[i].ret \in SuccessCodes})

\* C32: every swap texture set that was created is destroyed by exactly one
\* ovr_DestroySwapTextureSet before its Session is destroyed: each set the
\* runtime holds belongs to one live SwapTextureSet, a drop destroys each set
\* it owns once, a Session is destroyed with no set left, and a Layer::new
\* that fails destroys the sets it had created and no other.
C32_EverySetDestroyedOnce ==
    /\ nativeSwapSets = Cardinality(Alive(swaps))
    /\ last.op = "Drop_SwapTextureSet"
           => CountCalls(last.calls, "ovr_DestroySwapTextureSet") = 1
    /\ last.op = "Drop_Layer"
           => CountCalls(last.calls, "ovr_DestroySwapTextureSet")
                  = Cardinality({s \in SwapIds : last.args.swapsBefore[s].layer = last.args.set})
    /\ last.op = "Drop_Hmd" => nativeSwapSets = 0
    /\ (last.op = "Layer_new" /\ last.result # "Ok")
           => /\ CountCalls(last.calls, "ovr_DestroySwapTextureSet") = SetsCreated(last.calls)
              /\ nativeSwapSets = last.args.nativeBefore
              /\ swaps = last.args.swapsBefore

(***************************************************************************)
(* Claims checked under SpecLoad.                                          *)
(***************************************************************************)

IsLookup(c) == c.fn = "dlsym"

\* The symbols the last handler looked up, in the order of its lookups.
SymbolsTried ==
    LET tried == SelectSeq(last.calls, IsLookup) IN
    [i \in DOMAIN tried |-> tried[i].symbol]

\* The place in the declaration order of the first symbol that is missing.
FirstMissing(missing) ==
    CHOOSE i \in DOMAIN DeclaredSymbols :
        /\ DeclaredSymbols[i] \in missing
        /\ \A j \in 1..(i - 1) : DeclaredSymbols[j] \notin missing

\* What C17 says of FunctionTable::load apart from the value it returns when
\* a symbol is missing.
C17_OnLoad ==
    last.op = "FunctionTable_load" =>
        /\ last.result = "Ok" <=> last.args.missing = {}
        /\ last.result = "Ok" =>
              /\ SymbolsTried = DeclaredSymbols
              /\ lib = "table"
              /\ closeCalls = last.args.closeCallsBefore
        /\ last.args.missing # {} =>
              /\ SymbolsTried = SubSeq(DeclaredSymbols, 1, FirstMissing(last.args.missing))
              /\ lib = "none"
              /\ CountCalls(last.calls, "dlclose") = 1
              /\ closeCalls = last.args.closeCallsBefore + 1
              /\ libsOpen = 0

\* C17 as claimed: FunctionTable::load returns a table only if every declared
\* symbol resolved; when one is missing it returns the error of the first
\* missing symbol in declaration order, attempts no later symbol, yields no
\* table, and the library handle it was given is closed exactly once.
C17_FirstMissingSymbolReturned ==
    /\ C17_OnLoad
    /\ (last.op = "FunctionTable_load" /\ last.args.missing # {}) =>
          /\ last.result = "Err"
          /\ last.args.error = DeclaredSymbols[FirstMissing(last.args.missing)]

\* C17 as amended: the same, except that when the close of the handle itself
\* reports an error the call panics instead of returning the error of the
\* missing symbol.
C17_FirstMissingSymbolReturnedUnlessCloseFails ==
    /\ C17_OnLoad
    /\ (last.op = "FunctionTable_load" /\ last.args.missing # {}) =>
          IF last.args.closeErr
          THEN last.result = "panic" /\ mode = "unwinding"
          ELSE /\ last.result = "Err"
               /\ last.args.error = DeclaredSymbols[FirstMissing(last.args.missing)]
               /\ mode = "running"

\* C17 witness: two symbols were missing, and the error is that of the one
\* declared first, which is not the first of the table.
C17_Witness ==
    /\ last.op = "FunctionTable_load"
    /\ Cardinality(last.args.missing) = 2
    /\ FirstMissing(last.args.missing) > 1
    /\ last.result = "Err"
    /\ last.args.error = DeclaredSymbols[FirstMissing(last.args.missing)]

\* C18: the library handle is closed at most once per successful open and
\* never for a failed open: open constructs no wrapper when the platform open
\* reports an error, and every constructed wrapper calls close exactly once,
\* on its drop, panicking when the close itself reports an error.
C18_ClosedOncePerOpen ==
    /\ closeCalls = opens - (IF lib = "none" THEN 0 ELSE 1)
    /\ libsOpen = (IF lib = "none" THEN 0 ELSE 1)
    /\ CountCalls(last.calls, "dlclose") <= 1
    /\ (last.op = "UnsafeDynamicLibrary_open" /\ last.args.openErr) =>
          /\ last.result = "Err"
          /\ lib = "none"
          /\ closeCalls = last.args.closeCallsBefore
    /\ "dlclose" \in CallNames(last.calls) =>
          /\ last.args.libBefore # "none"
          /\ lib = "none"
          /\ closeCalls = last.args.closeCallsBefore + 1
          /\ last.args.closeErr =>
                mode = (IF last.args.modeBefore = "running" THEN "unwinding" ELSE "aborted")

\* C18 witness: an open failed after an earlier library had been opened and
\* closed once.
C18_Witness ==
    /\ last.op = "UnsafeDynamicLibrary_open"
    /\ last.args.openErr
    /\ opens = 1
    /\ closeCalls = 1

(***************************************************************************)
(* Claims checked under SpecPath.                                          *)
(***************************************************************************)

HasSeparator(path) == \E i \in DOMAIN path : path[i] = separator

\* C37 as stated: prepend_search_path(p) makes p the first entry of the
\* search path and keeps the entries that were there in their order, and
\* create_path followed by splitting on the separator gives back the list of
\* paths, for paths that do not contain the separator.
C37_PrependAndRoundTrip ==
    /\ (last.op = "prepend_search_path" /\ ~HasSeparator(last.args.path))
           => last.args.after = <<last.args.path>> \o last.args.before
    /\ (last.op = "create_path" /\ \A i \in DOMAIN last.args.path : ~HasSeparator(last.args.path[i]))
           => last.args.split = last.args.path

\* C37 amended: the same for prepend_search_path, and the round trip for
\* lists of at least one path; the empty list is written as the empty string,
\* which splits into one empty path.  A path that contains the separator is
\* prepended as the pieces it splits into.
C37_PrependAndRoundTripOfNonEmptyLists ==
    /\ last.op = "prepend_search_path"
           => /\ last.args.after = split_paths(last.args.path) \o last.args.before
              /\ last.args.after = search_path(envvar)
              /\ ~HasSeparator(last.args.path)
                     => /\ last.args.after = <<last.args.path>> \o last.args.before
                        /\ last.args.after[1] = last.args.path
    /\ last.op = "create_path"
           => /\ (last.args.path # <<>>
                     /\ \A i \in DOMAIN last.args.path : ~HasSeparator(last.args.path[i]))
                    => last.args.split = last.args.path
              /\ last.args.path = <<>>
                    => (last.args.newvar = <<>> /\ last.args.split = << <<>> >>)

\* C37 witness: a path was prepended to a search path of two different
\* entries.
C37_Witness ==
    /\ last.op = "prepend_search_path"
    /\ last.args.path = <<"a", "a">>
    /\ Len(last.args.before) = 2
    /\ last.args.before[1] # last.args.before[2]
    /\ last.args.before[1] # last.args.path
    /\ search_path(envvar) = <<last.args.path>> \o last.args.before

(***************************************************************************)
(* Claims checked under SpecMonitor.                                       *)
(***************************************************************************)

\* Both identifiers are Numeric with equal numbers or both are Name with
\* equal strings.
SameNumberOrName(a, b) ==
    \/ a.variant = "Numeric" /\ b.variant = "Numeric" /\ a.num = b.num
    \/ a.variant = "Name" /\ b.variant = "Name" /\ a.name = b.name

\* C38: an HmdDisplayId and a monitor identifier compare equal, in either
\* order, exactly when both are Numeric with equal numbers or both are Name
\* with equal strings, so never when their variants differ; and
\* find_glutin_monitor returns the first enumerated monitor whose identifier
\* is equal to the display's, or None when no monitor's is.
C38_CrossTypeEqualityAndFirstMatch ==
    /\ last.op \in {"HmdDisplayId_eq", "NativeMonitorId_eq"}
           => /\ last.result = SameNumberOrName(last.args.display, last.args.monitor)
              /\ HmdDisplayId_eq(last.args.display, last.args.monitor)
                     = NativeMonitorId_eq(last.args.monitor, last.args.display)
              /\ last.args.display.variant # last.args.monitor.variant => ~last.result
    /\ last.op = "find_glutin_monitor"
           => LET matching == {i \in DOMAIN last.args.monitors :
                                   SameNumberOrName(last.args.display, last.args.monitors[i])}
              IN  /\ matching = {} => last.result = 0
                  /\ matching # {} => /\ last.result \in matching
                                      /\ \A i \in matching : last.result <= i

\* C38 witness: of two monitors the second has the display's name and the
\* first has not, and the second is the one returned.
C38_Witness ==
    /\ last.op = "find_glutin_monitor"
    /\ last.args.display = Id_Name("a")
    /\ Len(last.args.monitors) = 2
    /\ last.args.monitors[1] = Id_Name("b")
    /\ last.args.monitors[2] = Id_Name("a")
    /\ last.result = 2

(***************************************************************************)
(* Claims checked under SpecLayout.                                        *)
(***************************************************************************)

\* The field of a laid-out ovrGLTexture with the given name.
FieldAt(offsets, name) == offsets[CHOOSE i \in DOMAIN offsets : offsets[i].name = name]

\* C39: the declared layout of ovrGLTexture matches the native union: on a
\* 64-bit target TexId is at byte offset 28 and the struct is 96 bytes, the
\* size of the native ovrTexture, and on a 32-bit target the padding after
\* TexId is 7 * 4 bytes.
C39_LayoutMatchesNative ==
    last.op = "texture_struct"
        => /\ last.args.size = last.args.native
           /\ last.args.target_pointer_width = 64
                  => /\ FieldAt(last.args.offsets, "TexId").offset = 28
                     /\ last.args.size = 96
           /\ last.args.target_pointer_width = 32
                  => LET TexId == FieldAt(last.args.offsets, "TexId")
                     IN  last.args.size - (TexId.offset + TexId.size) = 7 * 4

====
